---- MODULE Spec2Model ----
(***************************************************************************)
(* Model of the Envolees backtest engine (src/envolees/backtest) and of    *)
(* the value objects it drives: OpenPosition / PendingOrder (position.py), *)
(* PropSimulator / DailyState (prop_sim.py), the Donchian breakout         *)
(* strategy (strategy/donchian_breakout.py) and BacktestEngine (engine.py).*)
(*                                                                         *)
(* Number representation.  The program computes in binary floating point.  *)
(* The model computes in fixed point:                                      *)
(*   - prices and ATR values are integers (price ticks);                   *)
(*   - configuration multipliers (sl_atr, tp_r, buffer_atr, ...) are       *)
(*     integers in units of 1/MulDen;                                      *)
(*   - R multiples (result_r) are integers in units of 1/RScale;           *)
(*   - fractions of equity (risk_per_trade, drawdown thresholds, drawdown  *)
(*     values) are integers in units of 1/FracDen;                         *)
(*   - cash amounts are integers.                                          *)
(* Quotients are rounded down.  Threshold comparisons of a quotient        *)
(* against a configured fraction are made by cross-multiplication, so they *)
(* are exact.                                                              *)
(***************************************************************************)
EXTENDS Integers, Sequences, FiniteSets, TLC

\* ---------------------------------------------------------------- scales
MulDen == 10
RScale == 100
FracDen == 10000

\* ---------------------------------------------------------------- bounds
\* Engine runs: number of coarse bars of the history, sub-bars replayed per
\* coarse bar, price grid and ATR values of the bars fed to the engine.
MaxBars == 3
MaxSub == 2
PriceLo == 10
PriceSpan == 4
MaxAtr == 1
MaxChan == 2
\* Single calls of check_exit and lifetimes of one position: price grid (in
\* half points: 200 is the price 100.0), ATR values, calls per lifetime.
PosLo == 194
PosSpan == 26
PosLevel == 200
PosAtrMax == 4
MaxCalls == 3
\* Call sequences on one PropSimulator: number of calls, equity dips below
\* the balance (in steps of EquityStep).
MaxPropCalls == 5
MaxDip == 2

\* ---------------------------------------------------------------- helpers
Max(a, b) == IF a >= b THEN a ELSE b
Min(a, b) == IF a <= b THEN a ELSE b
Abs(a) == IF a >= 0 THEN a ELSE -a
\* multiplier (units of 1/MulDen) times a price distance
Mul(m, x) == (m * x) \div MulDen

Directions == {"LONG", "SHORT"}

\* ---------------------------------------------------------------- position.py
\* OpenPosition.__post_init__ : defaults of best_price / trailing_sl
PostInit(p) ==
    [p EXCEPT !.best_price = IF p.best_price = 0 THEN p.entry ELSE @,
              !.trailing_sl = IF p.trailing_sl = 0 THEN p.sl ELSE @]

\* OpenPosition(...) as the engine constructs it: the trailing fields take
\* their dataclass defaults (0.0) and __post_init__ runs.
OpenPosition(direction, entry, sl, tp, ts_signal, ts_entry, atr_signal, entry_bar_idx, risk_cash) ==
    PostInit([direction |-> direction, entry |-> entry, sl |-> sl, tp |-> tp,
              ts_signal |-> ts_signal, ts_entry |-> ts_entry,
              atr_signal |-> atr_signal, entry_bar_idx |-> entry_bar_idx,
              risk_cash |-> risk_cash,
              best_price |-> 0, trailing_sl |-> 0,
              trailing_atr_dist |-> 0, trailing_activation_price |-> 0])

risk_points(p) == Abs(p.entry - p.sl)

effective_sl(p) ==
    IF p.direction = "LONG"
    THEN Max(p.sl, p.trailing_sl)
    ELSE IF p.trailing_sl = 0 THEN p.sl ELSE Min(p.sl, p.trailing_sl)

\* variant of update_trailing without the "only in the favourable direction"
\* guards: the trailing stop is set to best_price -/+ distance on every call
update_trailing_unguarded(p, high, low) ==
    IF p.trailing_atr_dist <= 0 THEN p
    ELSE IF p.direction = "LONG"
    THEN LET bp == IF high > p.best_price THEN high ELSE p.best_price
             p1 == [p EXCEPT !.best_price = bp]
         IN  IF p.trailing_activation_price > 0 /\ bp < p.trailing_activation_price
             THEN p1
             ELSE [p1 EXCEPT !.trailing_sl = high - p.trailing_atr_dist]
    ELSE LET bp == IF p.best_price = 0 \/ low < p.best_price THEN low ELSE p.best_price
             p1 == [p EXCEPT !.best_price = bp]
         IN  IF p.trailing_activation_price > 0 /\ bp > p.trailing_activation_price
             THEN p1
             ELSE [p1 EXCEPT !.trailing_sl = low + p.trailing_atr_dist]

\* variant of update_trailing without the activation test
update_trailing_ungated(p, high, low) ==
    IF p.trailing_atr_dist <= 0 THEN p
    ELSE IF p.direction = "LONG"
    THEN LET bp == IF high > p.best_price THEN high ELSE p.best_price
             p1 == [p EXCEPT !.best_price = bp]
             new_trailing == bp - p.trailing_atr_dist
         IN  IF new_trailing > p.trailing_sl
             THEN [p1 EXCEPT !.trailing_sl = new_trailing]
             ELSE p1
    ELSE LET bp == IF p.best_price = 0 \/ low < p.best_price THEN low ELSE p.best_price
             p1 == [p EXCEPT !.best_price = bp]
             new_trailing == bp + p.trailing_atr_dist
         IN  IF p.trailing_sl = 0 \/ new_trailing < p.trailing_sl
             THEN [p1 EXCEPT !.trailing_sl = new_trailing]
             ELSE p1

update_trailing(p, high, low) ==
    IF p.trailing_atr_dist <= 0 THEN p
    ELSE IF p.direction = "LONG"
    THEN LET bp == IF high > p.best_price THEN high ELSE p.best_price
             p1 == [p EXCEPT !.best_price = bp]
             new_trailing == bp - p.trailing_atr_dist
         IN  IF p.trailing_activation_price > 0 /\ bp < p.trailing_activation_price
             THEN p1
             ELSE IF new_trailing > p.trailing_sl
                  THEN [p1 EXCEPT !.trailing_sl = new_trailing]
                  ELSE p1
    ELSE LET bp == IF p.best_price = 0 \/ low < p.best_price THEN low ELSE p.best_price
             p1 == [p EXCEPT !.best_price = bp]
             new_trailing == bp + p.trailing_atr_dist
         IN  IF p.trailing_activation_price > 0 /\ bp > p.trailing_activation_price
             THEN p1
             ELSE IF p.trailing_sl = 0 \/ new_trailing < p.trailing_sl
                  THEN [p1 EXCEPT !.trailing_sl = new_trailing]
                  ELSE p1

\* variant of compute_pnl_r that measures every position as a LONG
compute_pnl_r_as_long(p, exit_price) ==
    IF risk_points(p) <= 0 THEN 0
    ELSE ((exit_price - p.entry) * RScale) \div risk_points(p)

\* result in R multiples, units of 1/RScale
compute_pnl_r(p, exit_price) ==
    IF risk_points(p) <= 0 THEN 0
    ELSE LET pnl_points == IF p.direction = "LONG"
                           THEN exit_price - p.entry
                           ELSE p.entry - exit_price
         IN  (pnl_points * RScale) \div risk_points(p)

compute_unrealized_r(p, current_price) == compute_pnl_r(p, current_price)

\* the factor 1.5 of the path heuristic, in units of 1/MulDen
HeurFactor == 15

\* path length of "SL first, then TP" used by the same-bar heuristic
path_sl_first(p, eff_sl, open_price) ==
    IF p.direction = "LONG"
    THEN Max(0, open_price - eff_sl) + (p.tp - eff_sl)
    ELSE Max(0, eff_sl - open_price) + (eff_sl - p.tp)

\* variant of the heuristic's decision that lets TP win on a tie
tp_wins_on_path_tie(path, bar_range) == path * MulDen >= HeurFactor * bar_range

\* path_sl_first > 1.5 * bar_range
tp_wins_on_path(path, bar_range) == path * MulDen > HeurFactor * bar_range

\* variant of check_exit that tests the take-profit before the stop
check_exit_tp_before_sl(p, high, low, conservative_same_bar, has_open, open_price) ==
    LET p1 == update_trailing(p, high, low)
        eff_sl == effective_sl(p1)
        hit_sl == IF p1.direction = "LONG" THEN low <= eff_sl ELSE high >= eff_sl
        hit_tp == p1.tp # 0 /\ (IF p1.direction = "LONG" THEN high >= p1.tp
                                ELSE low <= p1.tp)
    IN  IF hit_tp THEN [pos |-> p1, reason |-> "TP", price |-> p1.tp]
        ELSE IF hit_sl
        THEN [pos |-> p1,
              reason |-> IF p1.trailing_atr_dist > 0 /\ eff_sl # p1.sl
                         THEN "TRAIL" ELSE "SL",
              price |-> eff_sl]
        ELSE [pos |-> p1, reason |-> "NONE", price |-> 0]

\* variant of check_exit in which, without an open price and with
\* conservative_same_bar off, a bar that hits both levels exits at the target
check_exit_lenient_tp(p, high, low, conservative_same_bar, has_open, open_price) ==
    LET p1 == update_trailing(p, high, low)
        eff_sl == effective_sl(p1)
        tp_active == p1.tp # 0
        is_trailing_exit == p1.trailing_atr_dist > 0 /\ eff_sl # p1.sl
        sl_reason == IF is_trailing_exit THEN "TRAIL" ELSE "SL"
        hit_sl0 == IF p1.direction = "LONG" THEN low <= eff_sl ELSE high >= eff_sl
        hit_tp0 == IF p1.direction = "LONG"
                   THEN tp_active /\ high >= p1.tp
                   ELSE tp_active /\ low <= p1.tp
        both == hit_sl0 /\ hit_tp0
        bar_range == high - low
        tp_first == has_open /\ bar_range > 0
                    /\ tp_wins_on_path(path_sl_first(p1, eff_sl, open_price), bar_range)
        hit_sl == IF both /\ has_open THEN ~tp_first ELSE hit_sl0
        hit_tp == IF both
                  THEN IF has_open THEN tp_first
                       ELSE IF conservative_same_bar THEN FALSE ELSE hit_tp0
                  ELSE hit_tp0
    IN  IF hit_sl /\ ~(both /\ ~has_open /\ ~conservative_same_bar)
        THEN [pos |-> p1, reason |-> sl_reason, price |-> eff_sl]
        ELSE IF hit_tp THEN [pos |-> p1, reason |-> "TP", price |-> p1.tp]
        ELSE [pos |-> p1, reason |-> "NONE", price |-> 0]

\* OpenPosition.check_exit.  has_open = FALSE stands for open_price = None.
\* Result: the position after the trailing update, the exit reason
\* ("NONE" for (None, None)) and the exit price.
check_exit(p, high, low, conservative_same_bar, has_open, open_price) ==
    LET p1 == update_trailing(p, high, low)
        eff_sl == effective_sl(p1)
        tp_active == p1.tp # 0
        is_trailing_exit == p1.trailing_atr_dist > 0 /\ eff_sl # p1.sl
        sl_reason == IF is_trailing_exit THEN "TRAIL" ELSE "SL"
        hit_sl0 == IF p1.direction = "LONG" THEN low <= eff_sl ELSE high >= eff_sl
        hit_tp0 == IF p1.direction = "LONG"
                   THEN tp_active /\ high >= p1.tp
                   ELSE tp_active /\ low <= p1.tp
        both == hit_sl0 /\ hit_tp0
        bar_range == high - low
        tp_first == has_open /\ bar_range > 0
                    /\ tp_wins_on_path(path_sl_first(p1, eff_sl, open_price), bar_range)
        hit_sl == IF both /\ has_open THEN ~tp_first ELSE hit_sl0
        hit_tp == IF both
                  THEN IF has_open THEN tp_first
                       ELSE IF conservative_same_bar THEN FALSE ELSE hit_tp0
                  ELSE hit_tp0
    IN  IF hit_sl THEN [pos |-> p1, reason |-> sl_reason, price |-> eff_sl]
        ELSE IF hit_tp THEN [pos |-> p1, reason |-> "TP", price |-> p1.tp]
        ELSE [pos |-> p1, reason |-> "NONE", price |-> 0]

\* PendingOrder
NoOrder == [direction |-> "NONE"]

from_signal(signal, current_bar_idx) ==
    [direction |-> signal.direction,
     entry_level |-> signal.entry_level,
     ts_signal |-> signal.timestamp,
     atr_signal |-> signal.atr_at_signal,
     expiry_bar_idx |-> current_bar_idx + signal.expiry_bars]

is_triggered(order, high, low) ==
    IF order.direction = "LONG"
    THEN high >= order.entry_level
    ELSE low <= order.entry_level

is_expired(order, current_bar_idx) == current_bar_idx > order.expiry_bar_idx

\* ---------------------------------------------------------------- config.py
\* "no day yet" (DailyState.current_day = None); calendar days are 1, 2, ...
NoDay == 0

\* Config as the engine reads it.  exec_penalty_atr is the engine's own
\* constructor argument; it is carried in the same record.
BaseCfg ==
    [start_balance |-> 100000,
     risk_per_trade |-> 200,
     buffer_atr |-> 0,
     proximity_atr |-> 20,
     sl_atr |-> 10,
     tp_r |-> 10,
     exit_mode |-> "fixed",
     trailing_atr |-> 10,
     trailing_activation_r |-> 0,
     order_valid_bars |-> 1,
     conservative_same_bar |-> TRUE,
     daily_dd_ftmo |-> 500,
     daily_dd_gft |-> 400,
     max_loss |-> 1000,
     stop_after_n_losses |-> 2,
     daily_kill_switch |-> 400,
     daily_equity_mode |-> "worst",
     max_concurrent_trades |-> 0,
     exec_penalty_atr |-> 0]

\* ---------------------------------------------------------------- prop_sim.py
NewDailyState ==
    [current_day |-> NoDay, start_equity |-> 0, min_equity |-> 0,
     losses_closed |-> 0, halted |-> FALSE]

\* variant of reset that leaves the halt flag as it is
DailyState_reset_keeping_halt(d, day, equity) ==
    [current_day |-> day, start_equity |-> equity, min_equity |-> equity,
     losses_closed |-> 0, halted |-> d.halted]

\* variant of reset that carries the minimum of the day before over
DailyState_reset_keeping_min(d, day, equity) ==
    [current_day |-> day, start_equity |-> equity,
     min_equity |-> IF d.current_day # NoDay /\ d.min_equity < equity
                    THEN d.min_equity ELSE equity,
     losses_closed |-> 0, halted |-> FALSE]

DailyState_reset(d, day, equity) ==
    [current_day |-> day, start_equity |-> equity, min_equity |-> equity,
     losses_closed |-> 0, halted |-> FALSE]

update_min_equity(d, equity) ==
    IF equity < d.min_equity THEN [d EXCEPT !.min_equity = equity] ELSE d

\* DailyState.daily_dd, units of 1/FracDen, rounded down
daily_dd(d) ==
    IF d.start_equity <= 0 THEN 0
    ELSE ((d.start_equity - d.min_equity) * FracDen) \div d.start_equity

\* daily_dd >= thr and daily_dd > thr, exact (thr in units of 1/FracDen)
daily_dd_ge(d, thr) ==
    IF d.start_equity <= 0 THEN 0 >= thr
    ELSE (d.start_equity - d.min_equity) * FracDen >= thr * d.start_equity

daily_dd_gt(d, thr) ==
    IF d.start_equity <= 0 THEN 0 > thr
    ELSE (d.start_equity - d.min_equity) * FracDen > thr * d.start_equity

NewPropSimulator(c) ==
    [daily |-> NewDailyState, peak_equity |-> c.start_balance,
     n_violate_ftmo_bars |-> 0, n_violate_gft_bars |-> 0,
     n_violate_total_bars |-> 0]

on_new_day(ps, day, equity) ==
    [ps EXCEPT !.daily = DailyState_reset(ps.daily, day, equity)]

\* PropSimulator.global_dd, units of 1/FracDen, rounded down
global_dd(ps, equity) ==
    IF ps.peak_equity <= 0 THEN 0
    ELSE ((ps.peak_equity - equity) * FracDen) \div ps.peak_equity

global_dd_gt(ps, equity, thr) ==
    IF ps.peak_equity <= 0 THEN 0 > thr
    ELSE (ps.peak_equity - equity) * FracDen > thr * ps.peak_equity

\* variant of the kill-switch test with a strict bound
kill_switch_hit_strict(c, d) == daily_dd_gt(d, c.daily_kill_switch)

\* daily_dd >= cfg.daily_kill_switch
kill_switch_hit(c, d) == daily_dd_ge(d, c.daily_kill_switch)

update_equity(c, ps, equity, day) ==
    IF ps.daily.current_day = NoDay \/ day # ps.daily.current_day
    THEN on_new_day(ps, day, equity)
    ELSE LET d1 == update_min_equity(ps.daily, equity)
             peak == IF equity > ps.peak_equity THEN equity ELSE ps.peak_equity
             ps1 == [ps EXCEPT !.daily = d1, !.peak_equity = peak]
             ps2 == [ps1 EXCEPT
                       !.n_violate_ftmo_bars =
                           IF daily_dd_gt(d1, c.daily_dd_ftmo) THEN @ + 1 ELSE @,
                       !.n_violate_gft_bars =
                           IF daily_dd_gt(d1, c.daily_dd_gft) THEN @ + 1 ELSE @,
                       !.n_violate_total_bars =
                           IF global_dd_gt(ps1, equity, c.max_loss) THEN @ + 1 ELSE @]
         IN  IF kill_switch_hit(c, d1)
             THEN [ps2 EXCEPT !.daily.halted = TRUE]
             ELSE ps2

\* losses_closed >= cfg.stop_after_n_losses
loss_limit_hit(c, losses_closed) == losses_closed >= c.stop_after_n_losses

on_trade_closed(c, ps, result_r, bal) ==
    LET d1 == IF result_r < 0
              THEN [ps.daily EXCEPT
                      !.losses_closed = @ + 1,
                      !.halted = IF loss_limit_hit(c, ps.daily.losses_closed + 1)
                                 THEN TRUE ELSE @]
              ELSE ps.daily
        d2 == update_min_equity(d1, bal)
        d3 == IF kill_switch_hit(c, d2) THEN [d2 EXCEPT !.halted = TRUE] ELSE d2
    IN  [ps EXCEPT !.daily = d3]

is_halted(ps) == ps.daily.halted

\* ---------------------------------------------------------------- donchian_breakout.py
NoSignal == [direction |-> "NONE"]

\* variant of generate_signal without the proximity test
generate_signal_any_distance(c, row, ts) ==
    IF ~row.ready THEN NoSignal
    ELSE IF row.no_trade THEN NoSignal
    ELSE IF ~row.VOL_ok THEN NoSignal
    ELSE LET buffer == Mul(c.buffer_atr, row.ATR)
             breakout_long == row.D_high + buffer
             breakout_short == row.D_low - buffer
         IN  IF row.Close > row.EMA /\ row.Close < breakout_long
             THEN [direction |-> "LONG", entry_level |-> breakout_long,
                   atr_at_signal |-> row.ATR, timestamp |-> ts,
                   expiry_bars |-> c.order_valid_bars]
             ELSE IF row.Close < row.EMA /\ row.Close > breakout_short
             THEN [direction |-> "SHORT", entry_level |-> breakout_short,
                   atr_at_signal |-> row.ATR, timestamp |-> ts,
                   expiry_bars |-> c.order_valid_bars]
             ELSE NoSignal

\* variant of generate_signal that also accepts distance = proximity
generate_signal_at_proximity(c, row, ts) ==
    IF ~row.ready THEN NoSignal
    ELSE IF row.no_trade THEN NoSignal
    ELSE IF ~row.VOL_ok THEN NoSignal
    ELSE LET buffer == Mul(c.buffer_atr, row.ATR)
             prox == Mul(c.proximity_atr, row.ATR)
             breakout_long == row.D_high + buffer
             breakout_short == row.D_low - buffer
         IN  IF row.Close > row.EMA /\ row.Close < breakout_long
                /\ breakout_long - row.Close <= prox
             THEN [direction |-> "LONG", entry_level |-> breakout_long,
                   atr_at_signal |-> row.ATR, timestamp |-> ts,
                   expiry_bars |-> c.order_valid_bars]
             ELSE IF row.Close < row.EMA /\ row.Close > breakout_short
                     /\ row.Close - breakout_short <= prox
             THEN [direction |-> "SHORT", entry_level |-> breakout_short,
                   atr_at_signal |-> row.ATR, timestamp |-> ts,
                   expiry_bars |-> c.order_valid_bars]
             ELSE NoSignal

\* _indicators_ready: no NaN among the five indicator columns (nan_cols is
\* the set of columns of the row that hold NaN)
IndicatorCols == {"ATR", "D_high", "D_low", "ATR_rel_q", "EMA"}
indicators_ready(nan_cols) == ~(\E col \in IndicatorCols : col \in nan_cols)

\* generate_signal on one enriched row.  row.ready stands for
\* _indicators_ready(row), row.no_trade for _in_no_trade_window(ts).
generate_signal(c, row, ts) ==
    IF ~row.ready THEN NoSignal
    ELSE IF row.no_trade THEN NoSignal
    ELSE IF ~row.VOL_ok THEN NoSignal
    ELSE LET buffer == Mul(c.buffer_atr, row.ATR)
             prox == Mul(c.proximity_atr, row.ATR)
             breakout_long == row.D_high + buffer
             breakout_short == row.D_low - buffer
         IN  IF row.Close > row.EMA /\ row.Close < breakout_long
                /\ breakout_long - row.Close < prox
             THEN [direction |-> "LONG", entry_level |-> breakout_long,
                   atr_at_signal |-> row.ATR, timestamp |-> ts,
                   expiry_bars |-> c.order_valid_bars]
             ELSE IF row.Close < row.EMA /\ row.Close > breakout_short
                     /\ row.Close - breakout_short < prox
             THEN [direction |-> "SHORT", entry_level |-> breakout_short,
                   atr_at_signal |-> row.ATR, timestamp |-> ts,
                   expiry_bars |-> c.order_valid_bars]
             ELSE NoSignal

\* variant of compute_entry_sl_tp that applies the penalty in the trader's favour
compute_entry_sl_tp_favourable(c, signal, exec_penalty_atr) ==
    LET penalty == Mul(exec_penalty_atr, signal.atr_at_signal)
    IN  IF signal.direction = "LONG"
        THEN LET entry == signal.entry_level - penalty
                 sl == entry - Mul(c.sl_atr, signal.atr_at_signal)
             IN  [entry |-> entry, sl |-> sl, tp |-> entry + Mul(c.tp_r, entry - sl)]
        ELSE LET entry == signal.entry_level + penalty
                 sl == entry + Mul(c.sl_atr, signal.atr_at_signal)
             IN  [entry |-> entry, sl |-> sl, tp |-> entry - Mul(c.tp_r, sl - entry)]

\* (entry, sl, tp) with the execution penalty
compute_entry_sl_tp(c, signal, exec_penalty_atr) ==
    LET penalty == Mul(exec_penalty_atr, signal.atr_at_signal)
    IN  IF signal.direction = "LONG"
        THEN LET entry == signal.entry_level + penalty
                 sl == entry - Mul(c.sl_atr, signal.atr_at_signal)
             IN  [entry |-> entry, sl |-> sl, tp |-> entry + Mul(c.tp_r, entry - sl)]
        ELSE LET entry == signal.entry_level - penalty
                 sl == entry + Mul(c.sl_atr, signal.atr_at_signal)
             IN  [entry |-> entry, sl |-> sl, tp |-> entry - Mul(c.tp_r, sl - entry)]

\* ---------------------------------------------------------------- engine.py
VARIABLES cfg, balance, open_positions, pending_order, prop_sim, daily_state,
          daily_stats, trades, equity_curve, bar_idx, pc, row, sub_idx

\* History variable: one entry per position _try_trigger_pending has opened,
\* taken at the moment of the append: the time and bar, whether the simulator
\* was halted, the number of positions open before it, the pending order it
\* came from and the position as opened.
VARIABLES opens

\* One object driven on its own through its public methods (the position of
\* the position specifications, the call log of the simulator specification):
\*   h_pos   the position, h_alive whether it has not exited yet
\*   h_call  the last call made: its arguments and its result
\*   h_n     the number of calls made
\*   h_streak / h_max_streak  the current and the longest run of consecutive
\*           losing closes of the current day (history variables)
VARIABLES h_pos, h_alive, h_call, h_n, h_streak, h_max_streak

hvars == <<h_pos, h_alive, h_call, h_n, h_streak, h_max_streak>>

engine_vars == <<cfg, balance, open_positions, pending_order, prop_sim,
                 daily_state, daily_stats, trades, equity_curve, bar_idx, pc,
                 row, sub_idx, opens>>

vars == <<engine_vars, hvars>>

\* width of a coarse bar in hours (the sub-bars of bar T lie in [T, T+4h))
TfHours == 4
BarTs(i) == i * TfHours
\* variant of SubTs that runs through the sub-bars of a bar backwards in time
SubTs_backwards(i, j) == BarTs(i) + (TfHours - 1 - j)
SubTs(i, j) == BarTs(i) + j

Prices == PriceLo .. (PriceLo + PriceSpan - 1)
NoRow == [ts |-> 0, day |-> NoDay, High |-> 0, Low |-> 0, Close |-> 0]

\* the mutable part of the engine that the helpers below transform
EngineState ==
    [balance |-> balance, open_positions |-> open_positions,
     pending_order |-> pending_order, prop_sim |-> prop_sim,
     daily_state |-> daily_state, trades |-> trades, opens |-> opens]

\* variant of the reference price that marks worst-case mode at the
\* favourable end of the bar
ref_price_best_case(c, p, r) ==
    IF c.daily_equity_mode = "close" THEN r.Close
    ELSE IF p.direction = "LONG" THEN r.High ELSE r.Low

ref_price(c, p, r) ==
    IF c.daily_equity_mode = "close" THEN r.Close
    ELSE IF p.direction = "LONG" THEN r.Low ELSE r.High

RECURSIVE total_unrealized(_, _, _, _)
total_unrealized(c, positions, r, i) ==
    IF i > Len(positions) THEN 0
    ELSE (compute_unrealized_r(positions[i], ref_price(c, positions[i], r))
            * positions[i].risk_cash) \div RScale
         + total_unrealized(c, positions, r, i + 1)

compute_equity(c, bal, positions, r) ==
    IF positions = <<>> THEN bal
    ELSE bal + total_unrealized(c, positions, r, 1)

daily_stats_row(d) ==
    [date |-> d.current_day, start_equity |-> d.start_equity,
     min_equity |-> d.min_equity, max_daily_dd_pct |-> daily_dd(d),
     losses_closed |-> d.losses_closed, halted |-> d.halted]

\* variant of close_position that books the cash result twice
close_position_double_booking(c, es, p, exit_price, exit_reason, bidx, ts) ==
    LET result_r == compute_pnl_r(p, exit_price)
        result_cash == (result_r * p.risk_cash) \div RScale
        bal == es.balance + 2 * result_cash
    IN  [es EXCEPT
           !.balance = bal,
           !.trades = Append(@,
               [direction |-> p.direction, ts_signal |-> p.ts_signal,
                ts_entry |-> p.ts_entry, ts_exit |-> ts, entry |-> p.entry,
                sl |-> p.sl, tp |-> p.tp, exit_price |-> exit_price,
                exit_reason |-> exit_reason, atr_signal |-> p.atr_signal,
                result_r |-> result_r, result_cash |-> result_cash,
                balance_after |-> bal,
                duration_bars |-> bidx - p.entry_bar_idx]),
           !.prop_sim = on_trade_closed(c, @, result_r, bal),
           !.daily_state = update_min_equity(@, bal)]

\* variant of close_position that leaves the engine's own daily minimum alone
close_position_without_daily_min(c, es, p, exit_price, exit_reason, bidx, ts) ==
    LET result_r == compute_pnl_r(p, exit_price)
        result_cash == (result_r * p.risk_cash) \div RScale
        bal == es.balance + result_cash
    IN  [es EXCEPT
           !.balance = bal,
           !.trades = Append(@,
               [direction |-> p.direction, ts_signal |-> p.ts_signal,
                ts_entry |-> p.ts_entry, ts_exit |-> ts, entry |-> p.entry,
                sl |-> p.sl, tp |-> p.tp, exit_price |-> exit_price,
                exit_reason |-> exit_reason, atr_signal |-> p.atr_signal,
                result_r |-> result_r, result_cash |-> result_cash,
                balance_after |-> bal,
                duration_bars |-> bidx - p.entry_bar_idx]),
           !.prop_sim = on_trade_closed(c, @, result_r, bal)]

close_position(c, es, p, exit_price, exit_reason, bidx, ts) ==
    LET result_r == compute_pnl_r(p, exit_price)
        result_cash == (result_r * p.risk_cash) \div RScale
        bal == es.balance + result_cash
    IN  [es EXCEPT
           !.balance = bal,
           !.trades = Append(@,
               [direction |-> p.direction, ts_signal |-> p.ts_signal,
                ts_entry |-> p.ts_entry, ts_exit |-> ts, entry |-> p.entry,
                sl |-> p.sl, tp |-> p.tp, exit_price |-> exit_price,
                exit_reason |-> exit_reason, atr_signal |-> p.atr_signal,
                result_r |-> result_r, result_cash |-> result_cash,
                balance_after |-> bal,
                duration_bars |-> bidx - p.entry_bar_idx]),
           !.prop_sim = on_trade_closed(c, @, result_r, bal),
           !.daily_state = update_min_equity(@, bal)]

\* the exit loop shared by _process_open_positions_4h and step 1 of
\* _execute_intrabar: check_exit on every open position in list order, close
\* the ones that exit, keep the others (with their trailing state updated).
\* b = [high, low, cons, has_open, open, bar_idx, ts]
RECURSIVE exit_loop(_, _, _, _, _)
exit_loop(c, es, i, kept, b) ==
    IF i > Len(es.open_positions) THEN [es EXCEPT !.open_positions = kept]
    ELSE LET r == check_exit(es.open_positions[i], b.high, b.low, b.cons,
                             b.has_open, b.open)
         IN  IF r.reason = "NONE"
             THEN exit_loop(c, es, i + 1, Append(kept, r.pos), b)
             ELSE exit_loop(c, close_position(c, es, r.pos, r.price, r.reason,
                                              b.bar_idx, b.ts),
                            i + 1, kept, b)

\* variant of the trigger guard that ignores the halt flag
trigger_allowed_ignoring_halt(es, high, low) ==
    /\ es.pending_order # NoOrder
    /\ is_triggered(es.pending_order, high, low)

\* the three early returns of _try_trigger_pending
trigger_allowed(es, high, low) ==
    /\ es.pending_order # NoOrder
    /\ is_triggered(es.pending_order, high, low)
    /\ ~is_halted(es.prop_sim)

\* the position _try_trigger_pending builds from the pending order
position_from_pending(c, order, bal, bidx, ts) ==
    LET signal == [direction |-> order.direction,
                   entry_level |-> order.entry_level,
                   atr_at_signal |-> order.atr_signal,
                   timestamp |-> order.ts_signal,
                   expiry_bars |-> 1]
        lv == compute_entry_sl_tp(c, signal, c.exec_penalty_atr)
        p0 == OpenPosition(order.direction, lv.entry, lv.sl, lv.tp,
                           order.ts_signal, ts, order.atr_signal, bidx,
                           (bal * c.risk_per_trade) \div FracDen)
        risk == Abs(lv.entry - lv.sl)
    IN  IF c.exit_mode = "trailing_atr"
        THEN [p0 EXCEPT
                !.trailing_atr_dist = Mul(c.trailing_atr, signal.atr_at_signal),
                !.tp = IF c.tp_r = 0 THEN 0 ELSE @,
                !.trailing_activation_price =
                    IF c.trailing_activation_r > 0
                    THEN IF order.direction = "LONG"
                         THEN lv.entry + Mul(c.trailing_activation_r, risk)
                         ELSE lv.entry - Mul(c.trailing_activation_r, risk)
                    ELSE @]
        ELSE p0

\* variant of _try_trigger_pending that drops an expired order unfilled
try_trigger_pending_unless_expired(c, es, high, low, bidx, ts) ==
    IF ~trigger_allowed(es, high, low) \/ is_expired(es.pending_order, bidx)
    THEN [es |-> es, opened |-> FALSE]
    ELSE LET new_pos == position_from_pending(c, es.pending_order, es.balance,
                                              bidx, ts)
         IN  [es |-> [es EXCEPT
                        !.open_positions = Append(@, new_pos),
                        !.pending_order = NoOrder,
                        !.opens = Append(@,
                            [ts |-> ts, bar_idx |-> bidx,
                             halted |-> is_halted(es.prop_sim),
                             n_open |-> Len(es.open_positions),
                             order |-> es.pending_order, pos |-> new_pos])],
              opened |-> TRUE]

\* _try_trigger_pending: [es, opened]; an opened position is the last one
try_trigger_pending(c, es, high, low, bidx, ts) ==
    IF ~trigger_allowed(es, high, low) THEN [es |-> es, opened |-> FALSE]
    ELSE LET new_pos == position_from_pending(c, es.pending_order, es.balance,
                                              bidx, ts)
         IN  [es |-> [es EXCEPT
                        !.open_positions = Append(@, new_pos),
                        !.pending_order = NoOrder,
                        !.opens = Append(@,
                            [ts |-> ts, bar_idx |-> bidx,
                             halted |-> is_halted(es.prop_sim),
                             n_open |-> Len(es.open_positions),
                             order |-> es.pending_order, pos |-> new_pos])],
              opened |-> TRUE]

\* list.remove(x): drop the first element equal to x
RECURSIVE remove_first(_, _)
remove_first(seq, x) ==
    IF seq = <<>> THEN <<>>
    ELSE IF Head(seq) = x THEN Tail(seq)
    ELSE <<Head(seq)>> \o remove_first(Tail(seq), x)

\* variant of step 3 that never closes the new position on its entry sub-bar
immediate_exit_skipped(c, es, r, bidx, ts) ==
    [es EXCEPT !.open_positions[Len(es.open_positions)] = r.pos]

\* step 3 of the loop body, given the new position's check_exit result r: the
\* position keeps its updated trailing state, or is closed and removed
immediate_exit(c, es, r, bidx, ts) ==
    IF r.reason = "NONE"
    THEN [es EXCEPT !.open_positions[Len(es.open_positions)] = r.pos]
    ELSE [close_position(c, [es EXCEPT !.open_positions[Len(es.open_positions)] = r.pos],
                         r.pos, r.price, r.reason, bidx, ts)
             EXCEPT !.open_positions = remove_first(@, r.pos)]

\* steps 2-3 of the loop body, given the result t of _try_trigger_pending
after_trigger(c, t, high, low, bidx, ts) ==
    IF ~t.opened THEN t.es
    ELSE immediate_exit(c, t.es,
             check_exit(t.es.open_positions[Len(t.es.open_positions)],
                        high, low, TRUE, FALSE, 0),
             bidx, ts)

\* one iteration of the loop of _execute_intrabar (one sub-bar)
execute_sub_bar(c, es, high, low, bidx, ts) ==
    after_trigger(c,
        try_trigger_pending(c,
            exit_loop(c, es, 1, <<>>,
                      [high |-> high, low |-> low, cons |-> TRUE,
                       has_open |-> FALSE, open |-> 0, bar_idx |-> bidx,
                       ts |-> ts]),
            high, low, bidx, ts),
        high, low, bidx, ts)

\* variant of the cap test that is off by one
cap_reached_off_by_one(c, n_open) ==
    c.max_concurrent_trades > 0 /\ n_open > c.max_concurrent_trades

cap_reached(c, n_open) ==
    c.max_concurrent_trades > 0 /\ n_open >= c.max_concurrent_trades

\* variant of _update_signal without the halt branch
update_signal_ignoring_halt(c, es, r, bidx, ts) ==
    IF cap_reached(c, Len(es.open_positions)) THEN NoOrder
    ELSE LET signal == generate_signal(c, r, ts)
         IN  IF signal # NoSignal THEN from_signal(signal, bidx) ELSE NoOrder

\* variant of _update_signal that keeps the pending order when the strategy
\* emits no signal
update_signal_keeping_order(c, es, r, bidx, ts) ==
    IF is_halted(es.prop_sim) THEN NoOrder
    ELSE IF cap_reached(c, Len(es.open_positions)) THEN NoOrder
    ELSE LET signal == generate_signal(c, r, ts)
         IN  IF signal # NoSignal THEN from_signal(signal, bidx)
             ELSE es.pending_order

\* _update_signal: the new pending order
update_signal(c, es, r, bidx, ts) ==
    IF is_halted(es.prop_sim) THEN NoOrder
    ELSE IF cap_reached(c, Len(es.open_positions)) THEN NoOrder
    ELSE LET signal == generate_signal(c, r, ts)
         IN  IF signal # NoSignal THEN from_signal(signal, bidx) ELSE NoOrder

\* ---------------------------------------------------------------- run()
\* configurations the engine is run under: the defaults with stacking
\* (fixed exits, worst-case equity, no cap), and a capped trailing variant
CapTrailCfg ==
    [BaseCfg EXCEPT !.max_concurrent_trades = 1, !.daily_equity_mode = "close",
                    !.exit_mode = "trailing_atr", !.trailing_atr = 10,
                    !.stop_after_n_losses = 1]

EngineConfigs == {BaseCfg, CapTrailCfg}

NoPos == [direction |-> "NONE"]
NoCall == [op |-> "none"]

HarnessIdle ==
    /\ h_pos = NoPos
    /\ h_alive = FALSE
    /\ h_call = NoCall
    /\ h_n = 0
    /\ h_streak = 0
    /\ h_max_streak = 0

\* the engine after __init__ under configuration c
EngineConstructed(c) ==
    /\ cfg = c
    /\ balance = c.start_balance
    /\ open_positions = <<>>
    /\ pending_order = NoOrder
    /\ prop_sim = NewPropSimulator(c)
    /\ daily_state = NewDailyState
    /\ daily_stats = <<>>
    /\ trades = <<>>
    /\ equity_curve = <<>>
    /\ bar_idx = 0
    /\ pc = "loop"
    /\ row = NoRow
    /\ sub_idx = 0
    /\ opens = <<>>

EngineInit ==
    /\ \E c \in EngineConfigs : EngineConstructed(c)
    /\ HarnessIdle

\* variant of the equity sample that skips bars on which trading is halted
append_equity_sample_unless_halted(curve, ts, bal, equity, ps, ds) ==
    IF is_halted(ps) THEN curve
    ELSE Append(curve,
             [time |-> ts, balance |-> bal, equity |-> equity,
              dd_global |-> global_dd(ps, equity), dd_daily |-> daily_dd(ds),
              halt_today |-> is_halted(ps)])

\* the equity sample of a coarse bar (one EquityRow per bar)
append_equity_sample(curve, ts, bal, equity, ps, ds) ==
    Append(curve,
        [time |-> ts, balance |-> bal, equity |-> equity,
         dd_global |-> global_dd(ps, equity), dd_daily |-> daily_dd(ds),
         halt_today |-> is_halted(ps)])

SetEngineState(es) ==
    /\ balance' = es.balance
    /\ open_positions' = es.open_positions
    /\ pending_order' = es.pending_order
    /\ prop_sim' = es.prop_sim
    /\ daily_state' = es.daily_state
    /\ trades' = es.trades
    /\ opens' = es.opens

\* the head of one iteration of the bar loop: mark-to-market equity, day
\* rollover, equity tracking, equity sample
StartBar ==
    /\ pc = "loop"
    /\ bar_idx < MaxBars
    /\ \E high \in Prices, low \in Prices, close \in Prices, newday \in BOOLEAN :
        /\ low <= close
        /\ close <= high
        /\ LET ts == BarTs(bar_idx)
               day == IF daily_state.current_day = NoDay THEN 1
                      ELSE IF newday THEN daily_state.current_day + 1
                      ELSE daily_state.current_day
               r == [ts |-> ts, day |-> day, High |-> high, Low |-> low,
                     Close |-> close]
               equity == compute_equity(cfg, balance, open_positions, r)
               changed == daily_state.current_day = NoDay
                          \/ day # daily_state.current_day
               \* _handle_day_change
               stats1 == IF changed /\ daily_state.current_day # NoDay
                         THEN Append(daily_stats, daily_stats_row(daily_state))
                         ELSE daily_stats
               ds1 == IF changed THEN DailyState_reset(daily_state, day, equity)
                      ELSE daily_state
               ps1 == IF changed THEN on_new_day(prop_sim, day, equity)
                      ELSE prop_sim
               \* equity tracking
               ds2 == update_min_equity(ds1, equity)
               ps2 == update_equity(cfg, ps1, equity, day)
           IN  /\ row' = r
               /\ daily_stats' = stats1
               /\ daily_state' = ds2
               /\ prop_sim' = ps2
               /\ equity_curve' = append_equity_sample(equity_curve, ts,
                                                        balance, equity, ps2, ds2)
               /\ pc' = "exec"
               /\ sub_idx' = 0
    /\ UNCHANGED <<cfg, balance, open_positions, pending_order, trades, bar_idx,
                   opens>>
    /\ UNCHANGED hvars

\* variant of the coarse path that tests the pending trigger before the exits,
\* so that the position it opens is evaluated for exit on the same bar
ExecuteCoarse_trigger_first ==
    /\ pc = "exec"
    /\ sub_idx = 0
    /\ \E open \in row.Low .. row.High :
        LET es1 == try_trigger_pending(cfg, EngineState, row.High, row.Low,
                                       bar_idx, row.ts).es
        IN  SetEngineState(exit_loop(cfg, es1, 1, <<>>,
                       [high |-> row.High, low |-> row.Low,
                        cons |-> cfg.conservative_same_bar, has_open |-> TRUE,
                        open |-> open, bar_idx |-> bar_idx, ts |-> row.ts]))
    /\ pc' = "signal"
    /\ UNCHANGED <<cfg, daily_stats, equity_curve, bar_idx, row, sub_idx>>
    /\ UNCHANGED hvars

\* the coarse path of the bar (the bar has no sub-bars):
\* _process_open_positions_4h, then _process_pending_order_4h
ExecuteCoarse ==
    /\ pc = "exec"
    /\ sub_idx = 0
    /\ \E open \in row.Low .. row.High :
        LET es1 == exit_loop(cfg, EngineState, 1, <<>>,
                       [high |-> row.High, low |-> row.Low,
                        cons |-> cfg.conservative_same_bar, has_open |-> TRUE,
                        open |-> open, bar_idx |-> bar_idx, ts |-> row.ts])
        IN  SetEngineState(try_trigger_pending(cfg, es1, row.High, row.Low,
                                               bar_idx, row.ts).es)
    /\ pc' = "signal"
    /\ UNCHANGED <<cfg, daily_stats, equity_curve, bar_idx, row, sub_idx>>
    /\ UNCHANGED hvars

\* the intrabar path: one iteration of the loop of _execute_intrabar, on the
\* next sub-bar of the current coarse bar
ExecuteIntrabar ==
    /\ pc = "exec"
    /\ sub_idx < MaxSub
    /\ \E high \in row.Low .. row.High, low \in row.Low .. row.High :
        /\ low <= high
        /\ SetEngineState(execute_sub_bar(cfg, EngineState, high, low, bar_idx,
                                          SubTs(bar_idx, sub_idx)))
    /\ sub_idx' = sub_idx + 1
    /\ pc' = "exec"
    /\ UNCHANGED <<cfg, daily_stats, equity_curve, bar_idx, row>>
    /\ UNCHANGED hvars

\* enriched rows given to generate_signal for a bar that closed at `close`:
\* rows that fail one of the three gates, and ready rows with the EMA on
\* either side of the close and a channel of half-width w around it
SignalRows(close) ==
    { [Close |-> close, EMA |-> close, ATR |-> 0, D_high |-> close,
       D_low |-> close, VOL_ok |-> g[1], ready |-> g[2], no_trade |-> g[3]] :
         g \in { <<FALSE, TRUE, FALSE>>, <<TRUE, FALSE, FALSE>>,
                 <<TRUE, TRUE, TRUE>> } }
    \cup
    { [Close |-> close, EMA |-> e, ATR |-> a, D_high |-> close + w,
       D_low |-> close - w, VOL_ok |-> TRUE, ready |-> TRUE, no_trade |-> FALSE] :
         e \in {close - 1, close + 1}, a \in 0 .. MaxAtr, w \in 0 .. MaxChan }

\* _update_signal at the end of the coarse bar (after the coarse path, or
\* after the last sub-bar), then the next iteration
UpdateSignal ==
    /\ \/ pc = "signal"
       \/ pc = "exec" /\ sub_idx > 0
    /\ \E r \in SignalRows(row.Close) :
        pending_order' = update_signal(cfg, EngineState, r, bar_idx, row.ts)
    /\ bar_idx' = bar_idx + 1
    /\ row' = NoRow
    /\ sub_idx' = 0
    /\ pc' = "loop"
    /\ UNCHANGED <<cfg, balance, open_positions, prop_sim, daily_state,
                   daily_stats, trades, equity_curve, opens>>
    /\ UNCHANGED hvars

\* variant of the end of run() that force-closes what is still open, at the
\* entry price
RECURSIVE force_close_all(_, _, _)
force_close_all(c, es, i) ==
    IF i > Len(es.open_positions) THEN [es EXCEPT !.open_positions = <<>>]
    ELSE force_close_all(c,
             close_position(c, es, es.open_positions[i],
                            es.open_positions[i].entry, "CLOSE_END", bar_idx,
                            BarTs(bar_idx)),
             i + 1)

Finish_force_close ==
    /\ pc = "loop"
    /\ daily_stats' = IF daily_state.current_day # NoDay
                      THEN Append(daily_stats, daily_stats_row(daily_state))
                      ELSE daily_stats
    /\ SetEngineState(force_close_all(cfg, EngineState, 1))
    /\ pc' = "done"
    /\ UNCHANGED <<cfg, equity_curve, bar_idx, row, sub_idx>>
    /\ UNCHANGED hvars

\* end of history: flush of the last day
Finish ==
    /\ pc = "loop"
    /\ daily_stats' = IF daily_state.current_day # NoDay
                      THEN Append(daily_stats, daily_stats_row(daily_state))
                      ELSE daily_stats
    /\ pc' = "done"
    /\ UNCHANGED <<cfg, balance, open_positions, pending_order, prop_sim,
                   daily_state, trades, equity_curve, bar_idx, row, sub_idx,
                   opens>>
    /\ UNCHANGED hvars

\* the same run under orders that are past their expiry on the bar after the
\* signal (order_valid_bars = 0) and under orders valid for two bars
OrderConfigs == { [BaseCfg EXCEPT !.order_valid_bars = n] : n \in {0, 2} }

OrderInit ==
    /\ \E c \in OrderConfigs : EngineConstructed(c)
    /\ HarnessIdle

\* ---------------------------------------------------------------- one position
PosPrices == PosLo .. (PosLo + PosSpan)
\* whole points of the grid
LifePrices == { q \in PosPrices : q % 2 = 0 }

Trail3Cfg ==
    [BaseCfg EXCEPT !.exit_mode = "trailing_atr", !.trailing_atr = 30]
Trail3ActCfg ==
    [BaseCfg EXCEPT !.exit_mode = "trailing_atr", !.trailing_atr = 30,
                    !.trailing_activation_r = 10]
\* trailing only: tp_r = 0 (the trailing configuration of diagnostic_cross.py)
TrailNoTpCfg == [Trail3Cfg EXCEPT !.tp_r = 0]
PosConfigs == {BaseCfg, Trail3Cfg, Trail3ActCfg, TrailNoTpCfg}

\* a pending order at PosLevel, as _update_signal leaves it on bar 0
HarnessOrder(dir, atr) ==
    from_signal([direction |-> dir, entry_level |-> PosLevel,
                 atr_at_signal |-> atr, timestamp |-> BarTs(0),
                 expiry_bars |-> 1], 0)

\* a position as _try_trigger_pending opens it on bar 1
PosInit ==
    /\ \E c \in PosConfigs : EngineConstructed(c)
    /\ \E dir \in Directions, atr \in 1 .. PosAtrMax :
        h_pos = position_from_pending(cfg, HarnessOrder(dir, atr),
                                      cfg.start_balance, 1, BarTs(1))
    /\ h_alive = TRUE
    /\ h_call = NoCall
    /\ h_n = 0
    /\ h_streak = 0
    /\ h_max_streak = 0

\* one call of check_exit on a fresh position, arguments and result logged
CallCheckExit ==
    /\ h_alive
    /\ h_n = 0
    /\ \E high \in PosPrices, low \in PosPrices, has_open \in BOOLEAN,
          open \in PosPrices, cons \in BOOLEAN :
        /\ low <= high
        /\ IF has_open THEN low <= open /\ open <= high ELSE open = PosLo
        /\ LET r == check_exit(h_pos, high, low, cons, has_open, open)
           IN  /\ h_pos' = r.pos
               /\ h_alive' = (r.reason = "NONE")
               /\ h_call' = [op |-> "check_exit", high |-> high, low |-> low,
                             has_open |-> has_open, open_price |-> open,
                             conservative |-> cons, before |-> h_pos,
                             reason |-> r.reason, price |-> r.price]
    /\ h_n' = 1
    /\ UNCHANGED <<engine_vars, h_streak, h_max_streak>>

SpecExit == PosInit /\ [][CallCheckExit]_vars

\* the lifetime of a position: calls of check_exit (as the coarse path makes
\* them, with an open price, and as the intrabar path makes them, without)
\* and of update_trailing, until the position exits
\* the two bars of the trailing scenario (2 ticks to the point): bar A =
\* (high 110, low 99), bar B = (high 108, low 103); the call log names them
ScenarioBar(high, low) ==
    IF high = 220 /\ low = 198 THEN "A"
    ELSE IF high = 216 /\ low = 206 THEN "B"
    ELSE "other"

LifeCheckExit ==
    /\ h_alive
    /\ h_n < MaxCalls
    /\ \E high \in LifePrices, low \in LifePrices, has_open \in BOOLEAN,
          open \in LifePrices, cons \in BOOLEAN :
        /\ low <= high
        /\ IF has_open THEN open \in {low, high} ELSE open = low
        /\ LET r == check_exit(h_pos, high, low, cons, has_open, open)
           IN  /\ h_pos' = r.pos
               /\ h_alive' = (r.reason = "NONE")
               /\ h_call' = [op |-> "check_exit", bar |-> ScenarioBar(high, low),
                             reason |-> r.reason, price |-> r.price]
    /\ h_n' = h_n + 1
    /\ UNCHANGED <<engine_vars, h_streak, h_max_streak>>

LifeUpdateTrailing ==
    /\ h_alive
    /\ h_n < MaxCalls
    /\ \E high \in LifePrices, low \in LifePrices :
        /\ low <= high
        /\ h_pos' = update_trailing(h_pos, high, low)
        /\ h_call' = [op |-> "update_trailing", bar |-> ScenarioBar(high, low),
                      reason |-> "NONE", price |-> 0]
    /\ h_n' = h_n + 1
    /\ UNCHANGED <<engine_vars, h_alive, h_streak, h_max_streak>>

LifeNext ==
    \/ LifeCheckExit
    \/ LifeUpdateTrailing

SpecLife == PosInit /\ [][LifeNext]_vars

\* the trailing stop over the lifetime of a position: the same calls, with
\* the running extreme of the bars seen since entry (highest high of a LONG,
\* lowest low of a SHORT, starting from the entry price) kept in the call log
ActNoTpCfg ==
    [BaseCfg EXCEPT !.exit_mode = "trailing_atr", !.trailing_atr = 10,
                    !.trailing_activation_r = 10, !.tp_r = 0]
TrailConfigs == {BaseCfg, Trail3Cfg, Trail3ActCfg, ActNoTpCfg}

running_extreme(p, extreme, high, low) ==
    IF p.direction = "LONG" THEN Max(extreme, high) ELSE Min(extreme, low)

TrailInit ==
    /\ \E c \in TrailConfigs : EngineConstructed(c)
    /\ \E dir \in Directions, atr \in 1 .. PosAtrMax :
        h_pos = position_from_pending(cfg, HarnessOrder(dir, atr),
                                      cfg.start_balance, 1, BarTs(1))
    /\ h_alive = TRUE
    /\ h_call = [op |-> "open", extreme |-> h_pos.entry, reason |-> "NONE",
                 price |-> 0]
    /\ h_n = 0
    /\ h_streak = 0
    /\ h_max_streak = 0

TrailCheckExit ==
    /\ h_alive
    /\ h_n < MaxCalls
    /\ \E high \in LifePrices, low \in LifePrices, has_open \in BOOLEAN,
          open \in LifePrices, cons \in BOOLEAN :
        /\ low <= high
        /\ IF has_open THEN open \in {low, high} ELSE open = low
        /\ LET r == check_exit(h_pos, high, low, cons, has_open, open)
           IN  /\ h_pos' = r.pos
               /\ h_alive' = (r.reason = "NONE")
               /\ h_call' = [op |-> "check_exit",
                             extreme |-> running_extreme(h_pos, h_call.extreme,
                                                         high, low),
                             reason |-> r.reason, price |-> r.price]
    /\ h_n' = h_n + 1
    /\ UNCHANGED <<engine_vars, h_streak, h_max_streak>>

TrailUpdateTrailing ==
    /\ h_alive
    /\ h_n < MaxCalls
    /\ \E high \in LifePrices, low \in LifePrices :
        /\ low <= high
        /\ h_pos' = update_trailing(h_pos, high, low)
        /\ h_call' = [op |-> "update_trailing",
                      extreme |-> running_extreme(h_pos, h_call.extreme, high,
                                                  low),
                      reason |-> "NONE", price |-> 0]
    /\ h_n' = h_n + 1
    /\ UNCHANGED <<engine_vars, h_alive, h_streak, h_max_streak>>

TrailNext ==
    \/ TrailCheckExit
    \/ TrailUpdateTrailing

SpecTrail == TrailInit /\ [][TrailNext]_vars

\* ---------------------------------------------------------------- one simulator
\* PropSimulator driven as the engine drives it: per coarse bar on_new_day (on
\* a day change) and update_equity with the bar's equity sample, and
\* on_trade_closed with the balance after each close.
LossCfg == [BaseCfg EXCEPT !.daily_kill_switch = 1000]
PropConfigs == {BaseCfg, LossCfg}

PropInit ==
    /\ \E c \in PropConfigs : EngineConstructed(c)
    /\ HarnessIdle

PropNewBar ==
    /\ h_n < MaxPropCalls
    /\ \E newday \in BOOLEAN, dip \in 0 .. MaxDip :
        LET day == IF prop_sim.daily.current_day = NoDay THEN 1
                   ELSE IF newday THEN prop_sim.daily.current_day + 1
                   ELSE prop_sim.daily.current_day
            changed == day # prop_sim.daily.current_day
            equity == balance - dip * ((balance * cfg.risk_per_trade) \div FracDen)
            ps1 == IF changed THEN on_new_day(prop_sim, day, equity) ELSE prop_sim
        IN  /\ prop_sim' = update_equity(cfg, ps1, equity, day)
            /\ h_streak' = IF changed THEN 0 ELSE h_streak
            /\ h_max_streak' = IF changed THEN 0 ELSE h_max_streak
            /\ h_call' = [op |-> "update_equity", changed |-> changed,
                          equity |-> equity]
    /\ h_n' = h_n + 1
    /\ UNCHANGED <<cfg, balance, open_positions, pending_order, daily_state,
                   daily_stats, trades, equity_curve, bar_idx, pc, row, sub_idx,
                   opens, h_pos, h_alive>>

PropTradeClosed ==
    /\ h_n < MaxPropCalls
    /\ prop_sim.daily.current_day # NoDay
    /\ \E result_r \in {-RScale, 0, RScale} :
        LET risk_cash == (balance * cfg.risk_per_trade) \div FracDen
            bal == balance + (result_r * risk_cash) \div RScale
            \* current run of losing closes: a win ends it, a flat close
            \* neither extends nor ends it
            streak == IF result_r < 0 THEN h_streak + 1
                      ELSE IF result_r > 0 THEN 0 ELSE h_streak
        IN  /\ balance' = bal
            /\ prop_sim' = on_trade_closed(cfg, prop_sim, result_r, bal)
            /\ h_streak' = streak
            /\ h_max_streak' = Max(h_max_streak, streak)
            /\ h_call' = [op |-> "on_trade_closed", result_r |-> result_r,
                          balance |-> bal]
    /\ h_n' = h_n + 1
    /\ UNCHANGED <<cfg, open_positions, pending_order, daily_state, daily_stats,
                   trades, equity_curve, bar_idx, pc, row, sub_idx, opens,
                   h_pos, h_alive>>

PropNext ==
    \/ PropNewBar
    \/ PropTradeClosed

SpecProp == PropInit /\ [][PropNext]_vars

\* ---------------------------------------------------------------- the intrabar loop
\* _execute_intrabar on its own: the engine stands on bar 1 with the pending
\* order that _update_signal placed on bar 0, and the sub-bars of bar 1 are
\* fed one by one.  Prices are in tenths of a point here, so that a penalty
\* of 0.10 ATR is a whole number of ticks.
SubLevel == 1000
SubOffsets == {-60, -50, -20, -10, 0, 10, 20, 50, 60}
SubPrices == {SubLevel + d : d \in SubOffsets}
SubHigh == CHOOSE x \in SubPrices : \A y \in SubPrices : y <= x
SubLow == CHOOSE x \in SubPrices : \A y \in SubPrices : x <= y
SubAtrs == {10, 20}
Penalties == {0, 1}

\* configurations with tp_r = 0 in each exit mode, and one with sl_atr = 0
FixedNoTpCfg == [BaseCfg EXCEPT !.tp_r = 0]
ZeroStopCfg == [BaseCfg EXCEPT !.sl_atr = 0]
SubConfigs == {BaseCfg, Trail3Cfg, FixedNoTpCfg, TrailNoTpCfg, ZeroStopCfg}

\* the pending order _update_signal leaves on bar 0 for a signal at SubLevel
SubOrder(dir, atr) ==
    from_signal([direction |-> dir, entry_level |-> SubLevel,
                 atr_at_signal |-> atr, timestamp |-> BarTs(0),
                 expiry_bars |-> 1], 0)

\* the flat engine at the start of the execution step of bar 1 (day 1, no
\* trade so far: equity = balance on both equity samples)
SubInit ==
    /\ \E c \in SubConfigs, k \in Penalties :
        cfg = [c EXCEPT !.exec_penalty_atr = k]
    /\ balance = cfg.start_balance
    /\ open_positions = <<>>
    /\ \E dir \in Directions, atr \in SubAtrs : pending_order = SubOrder(dir, atr)
    /\ daily_state = update_min_equity(
                         DailyState_reset(NewDailyState, 1, balance), balance)
    /\ prop_sim = update_equity(cfg, on_new_day(NewPropSimulator(cfg), 1, balance),
                                balance, 1)
    /\ daily_stats = <<>>
    /\ trades = <<>>
    /\ equity_curve =
           append_equity_sample(
               append_equity_sample(<<>>, BarTs(0), balance, balance, prop_sim,
                                    daily_state),
               BarTs(1), balance, balance, prop_sim, daily_state)
    /\ bar_idx = 1
    /\ pc = "exec"
    /\ row = [ts |-> BarTs(1), day |-> 1, High |-> SubHigh, Low |-> SubLow,
              Close |-> SubLevel]
    /\ sub_idx = 0
    /\ opens = <<>>
    /\ HarnessIdle

\* one iteration of the loop of _execute_intrabar, the sub-bar logged
SubBar ==
    /\ pc = "exec"
    /\ sub_idx < MaxSub
    /\ \E high \in SubPrices, low \in SubPrices :
        /\ low <= high
        /\ SetEngineState(execute_sub_bar(cfg, EngineState, high, low, bar_idx,
                                          SubTs(bar_idx, sub_idx)))
        /\ h_call' = [op |-> "sub_bar", high |-> high, low |-> low,
                      ts |-> SubTs(bar_idx, sub_idx),
                      n_trades |-> Len(trades), n_opens |-> Len(opens)]
    /\ sub_idx' = sub_idx + 1
    /\ h_n' = h_n + 1
    /\ UNCHANGED <<cfg, daily_stats, equity_curve, bar_idx, row, pc>>
    /\ UNCHANGED <<h_pos, h_alive, h_streak, h_max_streak>>

SpecSub == SubInit /\ [][SubBar]_vars

\* ---------------------------------------------------------------- generate_signal
\* generate_signal on its own, on enriched rows around a close of SigClose
\* (tenths of a point): EMA just below, at and just above the close, ATR 0,
\* 1.0 and 2.0, channel edges at the offsets below from the close (on both
\* sides of every buffer and proximity boundary), at most one NaN indicator.
SigClose == 1000
SigAtrs == {0, 10, 20}
SigOffsets == {-1, 0, 1, 13, 14, 15, 16, 19, 20, 21, 29, 30, 38, 39, 40}
BufferCfg == [BaseCfg EXCEPT !.buffer_atr = 1, !.proximity_atr = 15]
SigConfigs == {BaseCfg, BufferCfg}
NanChoices == {{}} \cup {{col} : col \in IndicatorCols}

SigInit ==
    /\ \E c \in SigConfigs : EngineConstructed(c)
    /\ HarnessIdle

CallGenerateSignal ==
    /\ h_n = 0
    /\ \E e \in {SigClose - 1, SigClose, SigClose + 1}, a \in SigAtrs,
          up \in SigOffsets, dn \in SigOffsets, vol \in BOOLEAN,
          nan \in NanChoices, nt \in BOOLEAN :
        LET r == [Close |-> SigClose, EMA |-> e, ATR |-> a,
                  D_high |-> SigClose + up, D_low |-> SigClose - dn,
                  VOL_ok |-> vol, ready |-> indicators_ready(nan),
                  no_trade |-> nt]
        IN  h_call' = [op |-> "generate_signal", row |-> r, nan |-> nan,
                       ts |-> BarTs(bar_idx),
                       signal |-> generate_signal(cfg, r, BarTs(bar_idx))]
    /\ h_n' = 1
    /\ UNCHANGED <<engine_vars, h_pos, h_alive, h_streak, h_max_streak>>

SpecSignal == SigInit /\ [][CallGenerateSignal]_vars

\* ---------------------------------------------------------------- split.py
\* A DataFrame is the sequence of its index values (bar timestamps, distinct);
\* split_ratio is in units of 1/RatioDen.
RatioDen == 10
NoDate == 0

\* int(x) of Python for x = n / d: truncation towards zero
IntTrunc(n, d) == IF n >= 0 THEN n \div d ELSE -((-n) \div d)

\* df.sort_index()
RECURSIVE insert_sorted(_, _)
insert_sorted(seq, x) ==
    IF seq = <<>> THEN <<x>>
    ELSE IF x < Head(seq) THEN <<x>> \o seq
    ELSE <<Head(seq)>> \o insert_sorted(Tail(seq), x)

RECURSIVE sort_index(_)
sort_index(df) ==
    IF df = <<>> THEN <<>>
    ELSE insert_sorted(sort_index(SubSeq(df, 1, Len(df) - 1)), df[Len(df)])

\* index.min() / index.max() (NaT, here NoDate, on an empty index)
index_min(df) ==
    IF df = <<>> THEN NoDate
    ELSE CHOOSE x \in {df[i] : i \in 1 .. Len(df)} : \A i \in 1 .. Len(df) : x <= df[i]
index_max(df) ==
    IF df = <<>> THEN NoDate
    ELSE CHOOSE x \in {df[i] : i \in 1 .. Len(df)} : \A i \in 1 .. Len(df) : x >= df[i]

\* variant of df.iloc[cut:] that starts one row late
iloc_from_next(df, cut) == SubSeq(df, cut + 2, Len(df))

\* df.iloc[cut:] and df.iloc[:cut] for 0 < cut < len(df)
iloc_from(df, cut) == SubSeq(df, cut + 1, Len(df))
iloc_to(df, cut) == SubSeq(df, 1, cut)

\* variant of the degenerate-cut test with strict bounds
cut_is_extreme_strict(cut, n) == cut < 0 \/ cut > n

\* "Ratio trop extreme": cut <= 0 or cut >= len(df)
cut_is_extreme(cut, n) == cut <= 0 \/ cut >= n

\* split_df_time: [df, info]
split_df_time(df, ratio, target) ==
    IF Len(df) = 0
    THEN [df |-> df,
          info |-> [mode |-> "none", target |-> "", ratio |-> ratio,
                    original_bars |-> 0, split_bars |-> 0,
                    date_start |-> NoDate, date_end |-> NoDate]]
    ELSE LET sorted == sort_index(df)
             original_bars == Len(sorted)
             cut == IntTrunc(Len(sorted) * ratio, RatioDen)
         IN  IF cut_is_extreme(cut, Len(sorted))
             THEN [df |-> sorted,
                   info |-> [mode |-> "time",
                             target |-> IF target = "" THEN "all" ELSE target,
                             ratio |-> ratio, original_bars |-> original_bars,
                             split_bars |-> original_bars,
                             date_start |-> index_min(sorted),
                             date_end |-> index_max(sorted)]]
             ELSE LET result == IF target = "oos" THEN iloc_from(sorted, cut)
                                ELSE iloc_to(sorted, cut)
                  IN  [df |-> result,
                       info |-> [mode |-> "time",
                                 target |-> IF target = "" THEN "is" ELSE target,
                                 ratio |-> ratio,
                                 original_bars |-> original_bars,
                                 split_bars |-> Len(result),
                                 date_start |-> index_min(result),
                                 date_end |-> index_max(result)]]

\* split_df_time on its own: a history of up to MaxSplitLen bars with
\* distinct timestamps in any order, a ratio from below 0 to above 1, and
\* the three targets applied to it
MaxSplitLen == 4
SplitRatios == {-5, 0, 1, 3, 5, 7, 9, 10, 12}
SplitFrames ==
    UNION { { f \in [1 .. n -> 1 .. MaxSplitLen] :
                \A i, j \in 1 .. n : i # j => f[i] # f[j] } : n \in 0 .. MaxSplitLen }

SplitInit ==
    /\ \E c \in {BaseCfg} : EngineConstructed(c)
    /\ HarnessIdle

CallSplit ==
    /\ h_n = 0
    /\ \E df \in SplitFrames, ratio \in SplitRatios :
        h_call' = [op |-> "split_df_time", df |-> df, ratio |-> ratio,
                   is |-> split_df_time(df, ratio, "is"),
                   oos |-> split_df_time(df, ratio, "oos"),
                   default |-> split_df_time(df, ratio, "")]
    /\ h_n' = 1
    /\ UNCHANGED <<engine_vars, h_pos, h_alive, h_streak, h_max_streak>>

SpecSplit == SplitInit /\ [][CallSplit]_vars

\* ---------------------------------------------------------------- output/compare.py
\* Metrics of a results row: n_trades, expectancy_r in 1/RScale, profit_factor
\* in 1/PfDen, max_daily_dd_pct in 1/FracDen.  The drop limits of the
\* criteria are in 1/PfDen.
PfDen == 100

\* OOSEligibility()
DefaultCriteria ==
    [min_trades |-> 15, min_expectancy |-> 0, min_pf |-> 120, max_dd |-> 500,
     max_expectancy_drop |-> 50, max_pf_drop |-> 40]

\* first character of the text Python prints for a threshold x / den
\* ("0.0", "1.2", "0.1", "-0.1", "10.5"): "-" or the leading digit of the
\* integer part
RECURSIVE LeadingDigit(_)
LeadingDigit(n) == IF n < 10 THEN n ELSE LeadingDigit(n \div 10)
FirstChar(x, den) == IF x < 0 THEN "-" ELSE ToString(LeadingDigit(x \div den))

\* a note, by what the verdict reads in its text: the metric it names and the
\* first character after "< " ("none" when the text has no "<")
Note(kind, lt) == [kind |-> kind, lt |-> lt]

\* "ExpR" in n / "PF" in n
names_ExpR(n) == n.kind \in {"ExpR", "ExpR drop"}
names_PF(n) == n.kind \in {"PF", "PF drop"}

\* variant of the critical test that reads the metric instead of the text:
\* the note's threshold is not part of it
is_critical_by_value(n, oos_row) ==
    \/ n.kind = "ExpR" /\ oos_row.expectancy_r < 0
    \/ n.kind = "PF" /\ oos_row.profit_factor < PfDen

\* "ExpR" in n and "< 0" in n or "PF" in n and "< 1" in n
is_critical(n, oos_row) ==
    \/ names_ExpR(n) /\ n.lt = "0"
    \/ names_PF(n) /\ n.lt = "1"

\* variant of the expectancy test with an inclusive bound
expectancy_fails_inclusive(oos_row, criteria) ==
    oos_row.expectancy_r <= criteria.min_expectancy

\* the three metric tests of steps 2-4
expectancy_fails(oos_row, criteria) ==
    oos_row.expectancy_r < criteria.min_expectancy
pf_fails(oos_row, criteria) == oos_row.profit_factor < criteria.min_pf
dd_fails(oos_row, criteria) == oos_row.max_daily_dd_pct > criteria.max_dd

\* step 5: exp_drop > max_expectancy_drop, and the PF drop test
expectancy_dropped(is_row, oos_row, criteria) ==
    /\ is_row.expectancy_r > 0
    /\ PfDen * (is_row.expectancy_r - oos_row.expectancy_r)
           > criteria.max_expectancy_drop * is_row.expectancy_r
pf_dropped(is_row, oos_row, criteria) ==
    /\ is_row.profit_factor > PfDen
    /\ PfDen * (is_row.profit_factor - oos_row.profit_factor)
           > criteria.max_pf_drop * (is_row.profit_factor - PfDen)
    /\ oos_row.profit_factor < is_row.profit_factor

\* the notes list after steps 2-5
collect_notes(is_row, oos_row, criteria) ==
    (IF expectancy_fails(oos_row, criteria)
     THEN <<Note("ExpR", FirstChar(criteria.min_expectancy, RScale))>> ELSE <<>>)
    \o (IF pf_fails(oos_row, criteria)
        THEN <<Note("PF", FirstChar(criteria.min_pf, PfDen))>> ELSE <<>>)
    \o (IF dd_fails(oos_row, criteria) THEN <<Note("DD", "none")>> ELSE <<>>)
    \o (IF expectancy_dropped(is_row, oos_row, criteria)
        THEN <<Note("ExpR drop", "none")>> ELSE <<>>)
    \o (IF pf_dropped(is_row, oos_row, criteria)
        THEN <<Note("PF drop", "none")>> ELSE <<>>)

\* the verdict on a notes list
verdict(notes, oos_row) ==
    IF notes = <<>> THEN "valid"
    ELSE IF (\E i \in 1 .. Len(notes) : is_critical(notes[i], oos_row))
            \/ Len(notes) >= 3
    THEN "failed"
    ELSE "degraded"

\* evaluate_oos_eligibility: [status, notes]
evaluate_oos_eligibility(is_row, oos_row, criteria) ==
    IF oos_row.n_trades < criteria.min_trades
    THEN [status |-> "insufficient_trades", notes |-> <<>>]
    ELSE [status |-> verdict(collect_notes(is_row, oos_row, criteria), oos_row),
          notes |-> collect_notes(is_row, oos_row, criteria)]

\* evaluate_oos_eligibility on its own: IS and OOS rows around every
\* threshold, under the default criteria and under stricter ones
StrictCriteria ==
    [DefaultCriteria EXCEPT !.min_expectancy = 10, !.min_pf = 150]
CriteriaChoices == {DefaultCriteria, StrictCriteria}
OosRows ==
    [n_trades : {14, 15}, expectancy_r : {-10, 0, 5, 10, 30},
     profit_factor : {90, 100, 110, 120, 150}, max_daily_dd_pct : {300, 500, 600}]
IsRows ==
    [expectancy_r : {0, 30, 100}, profit_factor : {100, 110, 150, 300}]

EligInit ==
    /\ \E c \in {BaseCfg} : EngineConstructed(c)
    /\ HarnessIdle

CallEvaluate ==
    /\ h_n = 0
    /\ \E is_row \in IsRows, oos_row \in OosRows, criteria \in CriteriaChoices :
        h_call' = [op |-> "evaluate_oos_eligibility", is_row |-> is_row,
                   oos_row |-> oos_row, criteria |-> criteria,
                   result |-> evaluate_oos_eligibility(is_row, oos_row, criteria)]
    /\ h_n' = 1
    /\ UNCHANGED <<engine_vars, h_pos, h_alive, h_streak, h_max_streak>>

SpecElig == EligInit /\ [][CallEvaluate]_vars

\* ----------------------------------------------------- tiered shortlists
\* A comparison table is a sequence of rows [ticker, oos_trades, oos_pf (in
\* 1/PfDen), oos_expectancy (1/RScale), oos_dd and is_dd (1/FracDen)].
\* TieredShortlistConfig(): weights in 1/100, dd_cap = 1.2%.
TierCfg ==
    [tier1_min_trades |-> 15, tier2_min_trades |-> 10, min_pf_oos |-> 120,
     min_expectancy_oos |-> 0, dd_cap |-> 120, weight_expectancy |-> 55,
     weight_pf |-> 30, weight_dd |-> 15, min_score |-> 0, max_tickers |-> 20]

\* math.log of a profit factor, in thousandths, for the profit factors of the
\* tables below
log_milli(pf) ==
    CASE pf = 110 -> 95
      [] pf = 120 -> 182
      [] pf = 150 -> 405
      [] pf = 200 -> 693

\* compute_oos_score, in millionths
compute_oos_score(r, c) ==
    100 * c.weight_expectancy * r.oos_expectancy
        + 10 * c.weight_pf * log_milli(r.oos_pf)
        - c.weight_dd * r.oos_dd

\* variant of the trade-count filter that lets every row through
enough_trades_always(r, min_trades) == TRUE

\* the filters of _generate_shortlist_for_tier
enough_trades(r, min_trades) == r.oos_trades >= min_trades
passes_filters(r, min_trades, c) ==
    /\ enough_trades(r, min_trades)
    /\ r.oos_pf >= c.min_pf_oos
    /\ r.oos_expectancy > c.min_expectancy_oos
    /\ r.oos_dd <= c.dd_cap
    /\ r.is_dd <= c.dd_cap

\* variant of the exclusion that excludes nothing
is_excluded_never(r, exclude_tickers) == FALSE

\* filtered["ticker"].isin(exclude_tickers)
is_excluded(r, exclude_tickers) == r.ticker \in exclude_tickers

with_score(df, c) ==
    [i \in 1 .. Len(df) |->
        [ticker |-> df[i].ticker, oos_trades |-> df[i].oos_trades,
         oos_pf |-> df[i].oos_pf, oos_expectancy |-> df[i].oos_expectancy,
         oos_dd |-> df[i].oos_dd, is_dd |-> df[i].is_dd,
         oos_score |-> compute_oos_score(df[i], c)]]

\* the scored candidates of a tier, before the sort
tier_candidates(df, min_trades, c, exclude_tickers) ==
    LET kept(r) == ~is_excluded(r, exclude_tickers)
                   /\ passes_filters(r, min_trades, c)
        scored == with_score(SelectSeq(df, kept), c)
        above(r) == c.min_score > 0 => r.oos_score >= c.min_score
    IN  SelectSeq(scored, above)

\* sort_values("oos_score", ascending=False): the sort is not stable, so
\* every descending arrangement of the rows is a possible outcome
sort_values_desc(df) ==
    { [i \in 1 .. Len(df) |-> df[perm[i]]] :
        perm \in { q \in [1 .. Len(df) -> 1 .. Len(df)] :
                     /\ \A i, j \in 1 .. Len(df) : i # j => q[i] # q[j]
                     /\ \A i \in 1 .. Len(df) - 1 :
                            df[q[i]].oos_score >= df[q[i + 1]].oos_score } }

\* variant of head(n) that keeps one row more
head_plus_one(df, n) == SubSeq(df, 1, Min(n + 1, Len(df)))

\* df.head(n)
head(df, n) == SubSeq(df, 1, Min(n, Len(df)))

\* _generate_shortlist_for_tier: the set of tables it can return
generate_shortlist_for_tier(df, min_trades, c, exclude_tickers) ==
    { head(sorted, c.max_tickers) :
        sorted \in sort_values_desc(tier_candidates(df, min_trades, c,
                                                     exclude_tickers)) }

tickers_of(df) == {df[i].ticker : i \in 1 .. Len(df)}

\* variant of the combined table that sorts the concatenation by score
combine_sorted(tier1, tier2) ==
    CHOOSE t \in sort_values_desc(tier1 \o tier2) : TRUE

\* pd.concat([tier1, tier2], ignore_index=True)
combine(tier1, tier2) == tier1 \o tier2

\* export_tiered_shortlists on its own: tables of up to MaxTable rows built
\* from three tickers and from rows that pass or fail each filter by one step
MaxTable == 3
Tickers == {"AAA", "BBB", "CCC"}
BaseMetrics ==
    [oos_trades |-> 20, oos_pf |-> 150, oos_expectancy |-> 30, oos_dd |-> 100,
     is_dd |-> 100]
Metrics ==
    { [BaseMetrics EXCEPT !.oos_trades = t] : t \in {9, 10, 15} }
    \cup { [BaseMetrics EXCEPT !.oos_trades = 12, !.oos_pf = f] : f \in {120, 200} }
    \cup { [BaseMetrics EXCEPT !.oos_pf = f] : f \in {110, 120, 200} }
    \cup { [BaseMetrics EXCEPT !.oos_expectancy = e] : e \in {0, 10} }
    \cup { [BaseMetrics EXCEPT !.oos_dd = d] : d \in {120, 130} }
    \cup { [BaseMetrics EXCEPT !.is_dd = d] : d \in {120, 130} }
TableRows ==
    { [ticker |-> k, oos_trades |-> m.oos_trades, oos_pf |-> m.oos_pf,
       oos_expectancy |-> m.oos_expectancy, oos_dd |-> m.oos_dd,
       is_dd |-> m.is_dd] : k \in Tickers, m \in Metrics }
TierConfigs ==
    { [TierCfg EXCEPT !.max_tickers = n] : n \in {1, 2, 20} }
    \cup { [TierCfg EXCEPT !.min_score = 230000] }

TierInit ==
    /\ \E c \in {BaseCfg} : EngineConstructed(c)
    /\ HarnessIdle

CallExportTiered ==
    /\ h_n = 0
    /\ \E n \in 0 .. MaxTable, c \in TierConfigs :
        \E df \in [1 .. n -> TableRows] :
            \E tier1 \in generate_shortlist_for_tier(df, c.tier1_min_trades, c, {}) :
                \E tier2 \in generate_shortlist_for_tier(df, c.tier2_min_trades,
                                                         c, tickers_of(tier1)) :
                    h_call' = [op |-> "export_tiered_shortlists", df |-> df,
                               cfg |-> c, tier1 |-> tier1, tier2 |-> tier2,
                               tradable |-> combine(tier1, tier2)]
    /\ h_n' = 1
    /\ UNCHANGED <<engine_vars, h_pos, h_alive, h_streak, h_max_streak>>

SpecTier == TierInit /\ [][CallExportTiered]_vars

\* ------------------------------------------------------- intrabar replay
\* Timestamps are whole hours.  The coarse frame is indexed by timestamps
\* aligned to its timeframe (Timeframe = "1h" or "4h"), the finer frame by
\* hours; both are given as sets and iterated in index order.
Timeframes == {1, 4}
\* pd.Timedelta("4h") of _build_sub_bar_map, in hours
SubMapFreq == 4
MaxHour == 7
Hours == 0 .. MaxHour

\* the timestamps of a set, in increasing order
RECURSIVE sorted_index(_)
sorted_index(S) ==
    IF S = {} THEN <<>>
    ELSE LET m == CHOOSE x \in S : \A y \in S : x <= y
         IN  <<m>> \o sorted_index(S \ {m})

\* variant of the window of a coarse bar that is as wide as the timeframe
sub_bars_within_timeframe(ts, fine, tf) ==
    sorted_index({t \in fine : t >= ts /\ t < ts + tf})

\* _build_sub_bar_map: the rows of the sorted finer frame under the mask
\* (index >= ts) & (index < ts + freq), for the coarse bar at ts
sub_bars_of(ts, fine, tf) ==
    sorted_index({t \in fine : t >= ts /\ t < ts + SubMapFreq})

\* the bar loop of run() with _execute_intrabar: the sub-bars replayed, in
\* the order they are processed, each with the coarse bar it is replayed under
RECURSIVE replay(_, _, _)
replay(coarse, fine, tf) ==
    IF coarse = <<>> THEN <<>>
    ELSE LET sub == sub_bars_of(Head(coarse), fine, tf)
         IN  [j \in 1 .. Len(sub) |-> [bar |-> Head(coarse), ts |-> sub[j]]]
             \o replay(Tail(coarse), fine, tf)

ReplayInit ==
    /\ \E c \in {BaseCfg} : EngineConstructed(c)
    /\ HarnessIdle

CallReplay ==
    /\ h_n = 0
    /\ \E tf \in Timeframes, fine \in SUBSET Hours :
        \E coarse \in SUBSET {t \in Hours : t % tf = 0} :
            h_call' = [op |-> "replay", timeframe |-> tf, coarse |-> coarse,
                       fine |-> fine,
                       replayed |-> replay(sorted_index(coarse), fine, tf)]
    /\ h_n' = 1
    /\ UNCHANGED <<engine_vars, h_pos, h_alive, h_streak, h_max_streak>>

SpecReplay == ReplayInit /\ [][CallReplay]_vars

\* ---------------------------------------------------------------- the engine run
Init == EngineInit

Next ==
    \/ StartBar
    \/ ExecuteCoarse
    \/ ExecuteIntrabar
    \/ UpdateSignal
    \/ Finish

Spec == Init /\ [][Next]_vars

SpecOrder == OrderInit /\ [][Next]_vars

\* ---------------------------------------------------------------- properties
\* number of positions the run has opened so far
n_opened == Len(opens)

\* C1 (engine.py 185-231, prop_sim.py 127-130): no position is opened while
\* the simulator is halted, on the coarse path and on the intrabar path.  Every
\* position was opened at a moment the halt flag was clear, and no position
\* is opened in a bar whose equity sample already shows the halt.
C1_NoEntryWhileHalted ==
    \A i \in DOMAIN opens :
        /\ ~opens[i].halted
        /\ opens[i].bar_idx + 1 \in DOMAIN equity_curve
        /\ ~equity_curve[opens[i].bar_idx + 1].halt_today

\* a triggered pending order that the coarse path skipped because of the halt
C1_Witness ==
    /\ pc = "signal"
    /\ is_halted(prop_sim)
    /\ pending_order # NoOrder
    /\ is_triggered(pending_order, row.High, row.Low)
    /\ n_opened >= 1

RECURSIVE SumResultCash(_, _)
SumResultCash(ts, n) ==
    IF n = 0 THEN 0 ELSE ts[n].result_cash + SumResultCash(ts, n - 1)

LedgerBalanced ==
    /\ balance = cfg.start_balance + SumResultCash(trades, Len(trades))
    /\ \A i \in DOMAIN trades :
          trades[i].balance_after = cfg.start_balance + SumResultCash(trades, i)

\* C2 (engine.py 154-183): the balance is the start balance plus the cash
\* results of the closed trades, each trade's balance_after is the running
\* sum up to it, and a step that closes no trade (an entry, a trailing
\* update, a signal recompute) leaves the balance alone.
C2_BalanceIsLedgerSum ==
    /\ []LedgerBalanced
    /\ [][Len(trades') = Len(trades) => balance' = balance]_vars

\* two closed trades, a loss then a gain, behind the balance
C2_Witness ==
    /\ Len(trades) = 2
    /\ trades[1].result_cash < 0
    /\ trades[2].result_cash > 0
    /\ balance # cfg.start_balance
    /\ n_opened = 2

\* C3 (engine.py 333-356, 185-231): with max_concurrent_trades = K > 0 there
\* are never more than K open positions, neither between steps nor at the
\* moment a position is appended.
C3_ConcurrentCap ==
    cfg.max_concurrent_trades > 0 =>
        /\ Len(open_positions) <= cfg.max_concurrent_trades
        /\ \A i \in DOMAIN opens : opens[i].n_open < cfg.max_concurrent_trades

\* the cap is reached, a second bar has been processed and nothing was added
C3_Witness ==
    /\ cfg.max_concurrent_trades = 1
    /\ Len(open_positions) = 1
    /\ bar_idx = 3
    /\ open_positions[1].entry_bar_idx = 1
    /\ pending_order = NoOrder

\* with K = 0 positions stack: one per bar since the first signal
C3_StackingReached ==
    /\ cfg.max_concurrent_trades = 0
    /\ Len(open_positions) = 2

\* C4 (position.py 51-90): over any sequence of check_exit / update_trailing
\* calls the effective stop of a position never moves against it (it does not
\* decrease for a LONG, does not increase for a SHORT) and is never less
\* protective than the initial stop, which itself never moves.
C4_EffectiveSlMonotone ==
    [][ h_pos # NoPos =>
          /\ h_pos'.sl = h_pos.sl
          /\ h_pos.direction = "LONG" =>
                /\ effective_sl(h_pos') >= effective_sl(h_pos)
                /\ effective_sl(h_pos') >= h_pos'.sl
          /\ h_pos.direction = "SHORT" =>
                /\ effective_sl(h_pos') <= effective_sl(h_pos)
                /\ effective_sl(h_pos') <= h_pos'.sl ]_vars

\* a LONG whose trailing stop has passed the initial stop and is still open
\* after two calls
C4_Witness ==
    /\ h_pos # NoPos
    /\ h_alive
    /\ h_n >= 2
    /\ h_pos.direction = "LONG"
    /\ h_pos.trailing_atr_dist > 0
    /\ effective_sl(h_pos) > h_pos.sl
    /\ h_pos.best_price > h_pos.entry

\* C5 as stated (engine.py 185-194, 340-342): in every state, a halted
\* simulator means there is no pending order.
C5_NoPendingWhileHalted ==
    is_halted(prop_sim) => pending_order = NoOrder

\* C5 as the code has it: between coarse bars (after the signal recompute
\* that ends a bar, and at the end of the run) a halted simulator means there
\* is no pending order; inside a bar the pending order may still be there.
C5_NoPendingWhileHaltedBetweenBars ==
    (pc \in {"loop", "done"} /\ is_halted(prop_sim)) => pending_order = NoOrder

\* a halted day whose bar has ended with the pending order cleared
C5_Witness ==
    /\ pc = "loop"
    /\ bar_idx >= 2
    /\ is_halted(prop_sim)
    /\ pending_order = NoOrder
    /\ n_opened >= 1

\* C6 (prop_sim.py 74-107, 115-125): the daily kill-switch is inclusive; in
\* every state, a daily drawdown (from the day's start equity to its lowest
\* equity) of at least daily_kill_switch means the simulator is halted.
C6_KillSwitchInclusive ==
    LET d == prop_sim.daily
    IN  (/\ d.start_equity > 0
         /\ (d.start_equity - d.min_equity) * FracDen
                >= cfg.daily_kill_switch * d.start_equity)
        => d.halted

\* an equity sample exactly at the threshold, no trade closed yet
C6_Witness ==
    LET d == prop_sim.daily
    IN  /\ d.start_equity > 0
        /\ (d.start_equity - d.min_equity) * FracDen
               = cfg.daily_kill_switch * d.start_equity
        /\ d.halted
        /\ trades = <<>>
        /\ pc = "exec"

C8_HaltOnConsecutiveLosses ==
    LET d == prop_sim.daily
    IN  (/\ d.current_day # NoDay
         /\ (d.start_equity - d.min_equity) * FracDen
                < cfg.daily_kill_switch * d.start_equity)
        => (d.halted <=> h_max_streak >= cfg.stop_after_n_losses)

\* what the code counts: the losing closes of the day, wins in between or not
C8_HaltOnLossCount ==
    LET d == prop_sim.daily
    IN  (/\ d.current_day # NoDay
         /\ (d.start_equity - d.min_equity) * FracDen
                < cfg.daily_kill_switch * d.start_equity)
        => (d.halted <=> d.losses_closed >= cfg.stop_after_n_losses)

\* C9 (engine.py 386-420): the equity curve has one sample per coarse bar
\* processed, the i-th at the timestamp of the i-th bar, so strictly
\* increasing; a run over no bar ends with an empty curve, no trade and no
\* daily row.
C9_OneEquitySamplePerBar ==
    /\ Len(equity_curve) = bar_idx + (IF pc \in {"exec", "signal"} THEN 1 ELSE 0)
    /\ \A i \in DOMAIN equity_curve : equity_curve[i].time = BarTs(i - 1)
    /\ \A i, j \in DOMAIN equity_curve :
          i < j => equity_curve[i].time < equity_curve[j].time
    /\ (pc = "done" /\ bar_idx = 0) =>
          (equity_curve = <<>> /\ trades = <<>> /\ daily_stats = <<>>)

\* a finished run with an entry, a halted bar and an exit on the way
C9_Witness ==
    /\ pc = "done"
    /\ bar_idx >= 3
    /\ Len(equity_curve) = bar_idx
    /\ \E i \in DOMAIN equity_curve : equity_curve[i].halt_today
    /\ trades # <<>>
    /\ n_opened >= 1

\* the bar of a logged check_exit call hits both the effective stop and the
\* take-profit of the position
BothHit ==
    LET p == h_pos
        eff == effective_sl(p)
    IN  /\ p.tp # 0
        /\ IF p.direction = "LONG"
           THEN h_call.low <= eff /\ h_call.high >= p.tp
           ELSE h_call.high >= eff /\ h_call.low <= p.tp

\* C10 (position.py 154-178): check_exit with an open price, on a bar that
\* hits both levels: with path = max(0, open - eff_sl) + (tp - eff_sl) for a
\* LONG (mirrored for a SHORT), the exit is the take-profit iff
\* path > 1.5 * (high - low), and the stop otherwise (also on a tie).  The two
\* bars of the example (entry 200, stop 196, target 204 in half points; high
\* 206, low 194, open 202 or 195) exit at the stop with -1 R.
C10_PathHeuristic ==
    (h_call.op = "check_exit" /\ h_call.has_open) =>
        LET p == h_pos
            eff == effective_sl(p)
            path == IF p.direction = "LONG"
                    THEN Max(0, h_call.open_price - eff) + (p.tp - eff)
                    ELSE Max(0, eff - h_call.open_price) + (eff - p.tp)
            tp_first == 2 * path > 3 * (h_call.high - h_call.low)
        IN  /\ BothHit =>
                IF tp_first
                THEN h_call.reason = "TP" /\ h_call.price = p.tp
                ELSE h_call.reason \in {"SL", "TRAIL"} /\ h_call.price = eff
            /\ (/\ p.direction = "LONG" /\ p.entry = 200 /\ p.sl = 196
                /\ p.tp = 204 /\ p.trailing_atr_dist = 0
                /\ h_call.high = 206 /\ h_call.low = 194
                /\ h_call.open_price \in {202, 195})
               => /\ h_call.reason = "SL"
                  /\ h_call.price = 196
                  /\ compute_pnl_r(p, h_call.price) = -RScale

\* the first bar of the example
C10_Witness ==
    /\ h_call.op = "check_exit"
    /\ h_call.has_open
    /\ h_pos.direction = "LONG"
    /\ h_pos.entry = 200
    /\ h_pos.sl = 196
    /\ h_pos.tp = 204
    /\ h_call.high = 206
    /\ h_call.low = 194
    /\ h_call.open_price = 202
    /\ BothHit
    /\ h_call.reason = "SL"

\* a bar on which the path test gives the take-profit, and a tie
C10_TpFirstReached ==
    /\ h_call.op = "check_exit"
    /\ h_call.has_open
    /\ BothHit
    /\ h_call.reason = "TP"

C10_TieReached ==
    /\ h_call.op = "check_exit"
    /\ h_call.has_open
    /\ BothHit
    /\ h_pos.direction = "LONG"
    /\ 2 * (Max(0, h_call.open_price - h_pos.sl) + (h_pos.tp - h_pos.sl))
         = 3 * (h_call.high - h_call.low)
    /\ h_call.reason = "SL"

\* the bar of the logged call crosses the position's effective stop / its
\* take-profit
StopCrossed ==
    IF h_pos.direction = "LONG" THEN h_call.low <= effective_sl(h_pos)
    ELSE h_call.high >= effective_sl(h_pos)

TpCrossed ==
    IF h_pos.direction = "LONG" THEN h_call.high >= h_pos.tp
    ELSE h_call.low <= h_pos.tp

\* C11 (position.py 108-178, test_check_exit_long): for a position with an
\* active take-profit, a bar that crosses only the stop exits at the
\* effective stop (reason SL at sl when the effective stop is the initial
\* one), a bar that crosses only the take-profit exits (TP, tp), a bar that
\* crosses neither does not exit, and a bar that crosses both, with no open
\* price and conservative = TRUE, exits at the effective stop, never at TP.
\* The four bars of the test (entry 200, stop 196, target 204) give none,
\* (SL, 196), (TP, 204) and SL.
C11_CheckExitCases ==
    (h_call.op = "check_exit" /\ h_pos.tp # 0) =>
        LET eff == effective_sl(h_pos)
            fresh == /\ h_pos.direction = "LONG" /\ h_pos.entry = 200
                     /\ h_pos.sl = 196 /\ h_pos.tp = 204
                     /\ h_pos.trailing_atr_dist = 0
                     /\ ~h_call.has_open /\ h_call.conservative
        IN  /\ (StopCrossed /\ ~TpCrossed) =>
                /\ h_call.reason \in {"SL", "TRAIL"}
                /\ h_call.price = eff
                /\ (eff = h_pos.sl) => (h_call.reason = "SL" /\ h_call.price = h_pos.sl)
            /\ (~StopCrossed /\ TpCrossed) =>
                (h_call.reason = "TP" /\ h_call.price = h_pos.tp)
            /\ (~StopCrossed /\ ~TpCrossed) => h_call.reason = "NONE"
            /\ (StopCrossed /\ TpCrossed /\ ~h_call.has_open /\ h_call.conservative) =>
                (h_call.reason \in {"SL", "TRAIL"} /\ h_call.price = eff)
            /\ (fresh /\ h_call.high = 202 /\ h_call.low = 198) => h_call.reason = "NONE"
            /\ (fresh /\ h_call.high = 202 /\ h_call.low = 194) =>
                (h_call.reason = "SL" /\ h_call.price = 196)
            /\ (fresh /\ h_call.high = 206 /\ h_call.low = 198) =>
                (h_call.reason = "TP" /\ h_call.price = 204)
            /\ (fresh /\ h_call.high = 206 /\ h_call.low = 194) =>
                (h_call.reason = "SL" /\ h_call.price = 196)

\* the last bar of the test: both levels crossed, no open price, conservative
C11_Witness ==
    /\ h_call.op = "check_exit"
    /\ ~h_call.has_open
    /\ h_call.conservative
    /\ h_pos.direction = "LONG"
    /\ h_pos.entry = 200
    /\ h_pos.sl = 196
    /\ h_pos.tp = 204
    /\ h_call.high = 206
    /\ h_call.low = 194
    /\ StopCrossed
    /\ TpCrossed
    /\ h_call.reason = "SL"

\* the sub-bar just fed triggered the pending order, and crosses the initial
\* stop of the position it opened
SubBarOpened ==
    /\ h_call.op = "sub_bar"
    /\ Len(opens) = h_call.n_opens + 1

SubBarCrossesStop ==
    LET p == opens[Len(opens)].pos
    IN  IF p.direction = "LONG" THEN h_call.low <= p.sl ELSE h_call.high >= p.sl

\* what C12 states apart from the exit reason: one trade, entered and exited
\* at the sub-bar's timestamp, of duration 0, and no position left open
SameSubBarTrade ==
    /\ Len(trades) = h_call.n_trades + 1
    /\ trades[Len(trades)].ts_entry = h_call.ts
    /\ trades[Len(trades)].ts_exit = h_call.ts
    /\ trades[Len(trades)].duration_bars = 0
    /\ trades[Len(trades)].entry = opens[Len(opens)].pos.entry
    /\ open_positions = <<>>

\* C12 as stated (engine.py 280-329): a sub-bar that triggers the pending
\* order and crosses the new position's stop yields exactly one trade with
\* exit_reason = SL, ts_entry = ts_exit = the sub-bar's timestamp and
\* duration_bars = 0, and leaves no open position.
C12_SameSubBarStopIsSL ==
    (SubBarOpened /\ SubBarCrossesStop) =>
        (SameSubBarTrade /\ trades[Len(trades)].exit_reason = "SL")

\* C12 amended: the same, with exit_reason = SL at the initial stop in fixed
\* mode and whenever the sub-bar has not lifted the trailing stop; in
\* trailing_atr mode the sub-bar's own extreme can lift the stop first, and
\* the trade is then closed with exit_reason = TRAIL at the lifted stop.
C12_SameSubBarStop ==
    (SubBarOpened /\ SubBarCrossesStop) =>
        /\ SameSubBarTrade
        /\ LET t == trades[Len(trades)]
               p == opens[Len(opens)].pos
               best == IF p.direction = "LONG" THEN h_call.high ELSE h_call.low
               lifted == IF p.direction = "LONG"
                         THEN best - p.trailing_atr_dist
                         ELSE best + p.trailing_atr_dist
               is_lifted == /\ p.trailing_atr_dist > 0
                            /\ IF p.direction = "LONG" THEN best > p.entry /\ lifted > p.sl
                               ELSE best < p.entry /\ lifted < p.sl
           IN  /\ t.exit_reason \in {"SL", "TRAIL"}
               /\ cfg.exit_mode = "fixed" => t.exit_reason = "SL"
               /\ is_lifted => (t.exit_reason = "TRAIL" /\ t.exit_price = lifted)
               /\ ~is_lifted => (t.exit_reason = "SL" /\ t.exit_price = p.sl)

\* fixed mode: a sub-bar opens a position and stops it out at once
C12_Witness ==
    /\ SubBarOpened
    /\ SubBarCrossesStop
    /\ cfg.exit_mode = "fixed"
    /\ cfg.sl_atr > 0
    /\ Len(trades) = 1
    /\ trades[1].exit_reason = "SL"
    /\ trades[1].duration_bars = 0
    /\ open_positions = <<>>

\* trailing mode: the entry sub-bar lifts the stop and exits on it
C12_TrailReached ==
    /\ SubBarOpened
    /\ SubBarCrossesStop
    /\ Len(trades) = 1
    /\ trades[1].exit_reason = "TRAIL"
    /\ trades[1].ts_entry = trades[1].ts_exit

\* the position of the trailing scenario in ticks of half a point: LONG,
\* entry 200 (100), initial stop 196 (98), ATR 4 (2), trailing distance 12
\* (3 ATR = 6), no activation threshold, no take-profit
ScenarioPosition(p) ==
    /\ p # NoPos
    /\ p.direction = "LONG"
    /\ p.entry = 200
    /\ p.sl = 196
    /\ p.tp = 0
    /\ p.trailing_atr_dist = 12
    /\ p.trailing_activation_price = 0

ScenarioFresh == ScenarioPosition(h_pos) /\ h_n = 0 /\ h_alive

\* the scenario position after bar A has lifted its stop, still open
ScenarioAfterA ==
    /\ ScenarioPosition(h_pos)
    /\ h_alive
    /\ h_pos.best_price = 220
    /\ h_pos.trailing_sl = 208

\* the next call evaluates bar A (high 110, low 99) / bar B (high 108, low 103)
NextIsBarA == h_call'.bar = "A"
NextIsBarB == h_call'.bar = "B"

\* C13 as stated (position.py 61-90, 108-178): check_exit on bar A sets
\* best_price = 110 and trailing_sl = 104 and leaves the position open, and
\* check_exit on bar B then exits TRAIL at 104 with +2R.
C13_ScenarioClosesOnBarB ==
    [][ /\ (ScenarioFresh /\ NextIsBarA /\ h_call'.op = "check_exit") =>
            /\ h_pos'.best_price = 220
            /\ h_pos'.trailing_sl = 208
            /\ h_alive'
        /\ (ScenarioAfterA /\ NextIsBarB /\ h_call'.op = "check_exit") =>
            /\ h_pos'.trailing_sl = 208
            /\ h_call'.reason = "TRAIL"
            /\ h_call'.price = 208 ]_vars

\* C13 amended: bar A sets best_price = 110 and trailing_sl = 104 in either
\* call; check_exit on bar A then exits at once, TRAIL at 104 with +2R,
\* because the low of bar A (99) is below the stop just lifted, while
\* update_trailing alone on bar A leaves the position open.  From that open
\* state check_exit on bar B keeps trailing_sl = 104 and exits TRAIL at 104
\* with +2R.
C13_TrailingScenario ==
    [][ /\ (ScenarioFresh /\ NextIsBarA) =>
            /\ h_pos'.best_price = 220
            /\ h_pos'.trailing_sl = 208
            /\ h_call'.op = "update_trailing" => h_alive'
            /\ h_call'.op = "check_exit" =>
                /\ ~h_alive'
                /\ h_call'.reason = "TRAIL"
                /\ h_call'.price = 208
                /\ compute_pnl_r(h_pos', h_call'.price) = 2 * RScale
        /\ (ScenarioAfterA /\ NextIsBarB /\ h_call'.op = "check_exit") =>
            /\ h_pos'.best_price = 220
            /\ h_pos'.trailing_sl = 208
            /\ ~h_alive'
            /\ h_call'.reason = "TRAIL"
            /\ h_call'.price = 208
            /\ compute_pnl_r(h_pos', h_call'.price) = 2 * RScale ]_vars

\* bar A through update_trailing, then bar B through check_exit: closed on
\* bar B at the stop that bar A set
C13_Witness ==
    /\ ScenarioPosition(h_pos)
    /\ h_n = 2
    /\ ~h_alive
    /\ h_pos.best_price = 220
    /\ h_pos.trailing_sl = 208
    /\ h_call.op = "check_exit"
    /\ h_call.bar = "B"
    /\ h_call.reason = "TRAIL"
    /\ h_call.price = 208

\* bar A through check_exit: closed on bar A
C13_ClosedOnBarA ==
    /\ ScenarioPosition(h_pos)
    /\ h_n = 1
    /\ ~h_alive
    /\ h_call.op = "check_exit"
    /\ h_call.bar = "A"
    /\ h_call.reason = "TRAIL"
    /\ h_call.price = 208

\* the levels of C14 for one opened position o = [order, pos], with the
\* multipliers in 1/MulDen: entry = L +- k*a, sl = entry -+ sl_atr*a,
\* tp = entry +- tp_r*|entry - sl| (the engine zeroes tp in trailing mode
\* when tp_r = 0)
LevelsAsSpecified(o) ==
    LET L == o.order.entry_level
        a == o.order.atr_signal
        d == IF o.pos.direction = "LONG" THEN 1 ELSE -1
    IN  /\ o.pos.direction = o.order.direction
        /\ MulDen * (o.pos.entry - L) = d * cfg.exec_penalty_atr * a
        /\ MulDen * (o.pos.entry - o.pos.sl) = d * cfg.sl_atr * a
        /\ \/ cfg.exit_mode = "trailing_atr" /\ cfg.tp_r = 0 /\ o.pos.tp = 0
           \/ MulDen * (o.pos.tp - o.pos.entry)
                  = d * cfg.tp_r * Abs(o.pos.entry - o.pos.sl)

\* C14 (donchian_breakout.py 148-167, engine.py 196-214,
\* test_compute_entry_sl_tp_long): every position the engine opens has
\* entry = L + k*a, sl = entry - sl_atr*a, tp = entry + tp_r*(entry - sl) for
\* a LONG and the mirror image for a SHORT, L and a being the level and ATR
\* of the pending order it came from; L = 100, a = 2, k = 0.10,
\* sl_atr = tp_r = 1 gives 100.2 / 98.2 / 102.2 (in tenths: 1002, 982, 1022).
C14_EntrySlTp ==
    \A i \in 1 .. Len(opens) :
        /\ LevelsAsSpecified(opens[i])
        /\ ( /\ opens[i].order.direction = "LONG"
             /\ opens[i].order.entry_level = 1000
             /\ opens[i].order.atr_signal = 20
             /\ cfg.exec_penalty_atr = 1
             /\ cfg.sl_atr = 10
             /\ cfg.tp_r = 10
             /\ cfg.exit_mode = "fixed" ) =>
                 ( /\ opens[i].pos.entry = 1002
                   /\ opens[i].pos.sl = 982
                   /\ opens[i].pos.tp = 1022 )

\* the position of the test has been opened by the engine
C14_Witness ==
    /\ Len(opens) = 1
    /\ opens[1].order.direction = "LONG"
    /\ opens[1].order.entry_level = 1000
    /\ opens[1].order.atr_signal = 20
    /\ cfg.exec_penalty_atr = 1
    /\ opens[1].pos.entry = 1002
    /\ opens[1].pos.sl = 982
    /\ opens[1].pos.tp = 1022

\* a SHORT opened with a penalty
C14_ShortReached ==
    /\ Len(opens) = 1
    /\ opens[1].order.direction = "SHORT"
    /\ cfg.exec_penalty_atr = 1
    /\ opens[1].pos.entry < opens[1].order.entry_level
    /\ opens[1].pos.sl > opens[1].pos.entry
    /\ opens[1].pos.tp # 0
    /\ opens[1].pos.tp < opens[1].pos.entry

Sign(x) == IF x > 0 THEN 1 ELSE IF x < 0 THEN -1 ELSE 0

\* the cash at risk of the position behind ledger row t (the position opened
\* at t.ts_entry; at most one position is opened per timestamp)
RiskCashOf(t) ==
    LET i == CHOOSE k \in 1 .. Len(opens) : opens[k].ts = t.ts_entry
    IN  opens[i].pos.risk_cash

\* C15 (position.py 92-102, engine.py _close_position,
\* test_open_position_pnl): every ledger row has
\* result_r = (exit - entry) * dir / |entry - sl| (so its sign is the sign of
\* (exit - entry) * dir) and result_cash = result_r * risk_cash; an exit at
\* the target of a 1R take-profit gives +1R and an exit at the initial stop
\* gives -1R.
C15_ResultInR ==
    \A i \in 1 .. Len(trades) :
        LET t == trades[i]
            d == IF t.direction = "LONG" THEN 1 ELSE -1
            rp == Abs(t.entry - t.sl)
        IN  /\ rp > 0
            /\ t.result_r * rp = (t.exit_price - t.entry) * d * RScale
            /\ Sign(t.result_r) = Sign((t.exit_price - t.entry) * d)
            /\ \E k \in 1 .. Len(opens) : opens[k].ts = t.ts_entry
            /\ t.result_cash * RScale = t.result_r * RiskCashOf(t)
            /\ (t.exit_reason = "TP" /\ cfg.tp_r = MulDen) =>
                   (t.exit_price = t.tp /\ t.result_r = RScale)
            /\ t.exit_reason = "SL" =>
                   (t.exit_price = t.sl /\ t.result_r = -RScale)

\* a SHORT closed at its 1R target and a LONG closed at its initial stop
C15_Witness ==
    /\ Len(trades) >= 2
    /\ \E i \in 1 .. Len(trades) :
        /\ trades[i].direction = "SHORT"
        /\ trades[i].exit_reason = "TP"
        /\ trades[i].result_r = RScale
        /\ trades[i].result_cash > 0
    /\ \E i \in 1 .. Len(trades) :
        /\ trades[i].direction = "LONG"
        /\ trades[i].exit_reason = "SL"
        /\ trades[i].result_r = -RScale
        /\ trades[i].result_cash < 0

\* C16 (donchian_breakout.py 148-167, engine.py 216-231): with tp_r = 0, in
\* either exit mode, every position is opened with an inactive take-profit
\* (tp = 0) and no trade is closed with exit_reason = TP.
C16_TpDisabled ==
    cfg.tp_r = 0 =>
        /\ \A i \in 1 .. Len(opens) : opens[i].pos.tp = 0
        /\ \A i \in 1 .. Len(trades) : trades[i].exit_reason # "TP"

\* the half of C16 the code implements: tp_r = 0 in trailing_atr mode
C16_TpDisabledWhenTrailing ==
    (cfg.tp_r = 0 /\ cfg.exit_mode = "trailing_atr") =>
        /\ \A i \in 1 .. Len(opens) : opens[i].pos.tp = 0
        /\ \A i \in 1 .. Len(trades) : trades[i].exit_reason # "TP"

\* fixed mode with tp_r = 0: the take-profit sits on the entry price and
\* closes the trade on the sub-bar that opened it, with 0R
C16_FixedTpAtEntry ==
    /\ cfg.tp_r = 0
    /\ cfg.exit_mode = "fixed"
    /\ Len(trades) = 1
    /\ trades[1].tp = trades[1].entry
    /\ trades[1].exit_reason = "TP"
    /\ trades[1].ts_exit = trades[1].ts_entry
    /\ trades[1].result_r = 0

\* C17 (engine.py 185-231, position.py 92-95): a triggered pending order
\* whose position would have risk_points = 0 (entry = sl) is consumed without
\* a position being added to open_positions and without a trade being logged.
C17_ZeroRiskFillRejected ==
    /\ \A i \in 1 .. Len(opens) : opens[i].pos.entry # opens[i].pos.sl
    /\ \A i \in 1 .. Len(open_positions) :
           open_positions[i].entry # open_positions[i].sl
    /\ \A i \in 1 .. Len(trades) : trades[i].entry # trades[i].sl

\* what the code does with such a fill: the order is consumed, the position
\* is opened with entry = sl, and its exit is logged as a trade of 0R
C17_ZeroRiskTradeLogged ==
    /\ cfg.sl_atr = 0
    /\ pending_order = NoOrder
    /\ Len(opens) = 1
    /\ opens[1].pos.entry = opens[1].pos.sl
    /\ Len(trades) = 1
    /\ trades[1].entry = trades[1].sl
    /\ trades[1].result_r = 0

\* the initial stop of p lies strictly on the adverse side of its entry
StopIsAdverse(p) ==
    /\ IF p.direction = "LONG" THEN p.sl < p.entry ELSE p.sl > p.entry
    /\ risk_points(p) > 0

\* C18 (donchian_breakout.py 108-167, engine.py 196-214): with sl_atr > 0
\* and penalty >= 0, every position ever held in open_positions has its
\* initial stop strictly on the adverse side of its entry and
\* risk_points > 0, whatever the bars, rows with ATR = 0 included (such a
\* row never yields a signal: the distance to the level is never < 0).
C18_StopStrictlyAdverse ==
    (cfg.sl_atr > 0 /\ cfg.exec_penalty_atr >= 0) =>
        /\ \A i \in 1 .. Len(opens) :
            /\ StopIsAdverse(opens[i].pos)
            /\ opens[i].order.atr_signal > 0
        /\ \A i \in 1 .. Len(open_positions) : StopIsAdverse(open_positions[i])
        /\ pending_order # NoOrder => pending_order.atr_signal > 0

\* a LONG and a SHORT held at the same time, each with its stop on its
\* adverse side
C18_Witness ==
    /\ cfg.sl_atr > 0
    /\ Len(open_positions) = 2
    /\ open_positions[1].direction # open_positions[2].direction
    /\ StopIsAdverse(open_positions[1])
    /\ StopIsAdverse(open_positions[2])

\* the conditions of C19 on the row of the logged call, multipliers in
\* 1/MulDen: gates, then LONG / SHORT side, not yet broken, close enough
SigGates ==
    /\ h_call.nan = {}
    /\ ~h_call.row.no_trade
    /\ h_call.row.VOL_ok

SigLongCond ==
    LET r == h_call.row
    IN  /\ SigGates
        /\ r.Close > r.EMA
        /\ MulDen * r.Close < MulDen * r.D_high + cfg.buffer_atr * r.ATR
        /\ MulDen * (r.D_high - r.Close) + cfg.buffer_atr * r.ATR
               < cfg.proximity_atr * r.ATR

SigShortCond ==
    LET r == h_call.row
    IN  /\ SigGates
        /\ r.Close < r.EMA
        /\ MulDen * r.Close > MulDen * r.D_low - cfg.buffer_atr * r.ATR
        /\ MulDen * (r.Close - r.D_low) + cfg.buffer_atr * r.ATR
               < cfg.proximity_atr * r.ATR

\* C19 (donchian_breakout.py 57-146): generate_signal returns a LONG signal
\* at d_high + buffer_atr*atr exactly when the indicators are ready, the bar
\* is outside the no-trade window, vol_ok holds, close > ema,
\* close < breakout_long and breakout_long - close < proximity_atr*atr; a
\* SHORT signal at d_low - buffer_atr*atr under the mirrored conditions; and
\* none otherwise: never with a NaN indicator, never both.
C19_SignalConditions ==
    h_call.op = "generate_signal" =>
        LET r == h_call.row
            sg == h_call.signal
        IN  /\ ~(SigLongCond /\ SigShortCond)
            /\ SigLongCond <=> (sg # NoSignal /\ sg.direction = "LONG")
            /\ SigShortCond <=> (sg # NoSignal /\ sg.direction = "SHORT")
            /\ (~SigLongCond /\ ~SigShortCond) <=> sg = NoSignal
            /\ h_call.nan # {} => sg = NoSignal
            /\ sg # NoSignal =>
                /\ sg.direction \in Directions
                /\ sg.atr_at_signal = r.ATR
                /\ sg.timestamp = h_call.ts
                /\ sg.expiry_bars = cfg.order_valid_bars
                /\ sg.direction = "LONG" =>
                       MulDen * sg.entry_level
                           = MulDen * r.D_high + cfg.buffer_atr * r.ATR
                /\ sg.direction = "SHORT" =>
                       MulDen * sg.entry_level
                           = MulDen * r.D_low - cfg.buffer_atr * r.ATR

\* a LONG signal with a buffer, one tick inside the proximity limit
C19_Witness ==
    /\ h_call.op = "generate_signal"
    /\ cfg.buffer_atr = 1
    /\ h_call.row.ATR = 10
    /\ h_call.row.D_high = SigClose + 13
    /\ SigLongCond
    /\ h_call.signal # NoSignal
    /\ h_call.signal.direction = "LONG"
    /\ h_call.signal.entry_level = SigClose + 14

\* a SHORT signal
C19_ShortReached ==
    /\ h_call.op = "generate_signal"
    /\ SigShortCond
    /\ h_call.signal # NoSignal
    /\ h_call.signal.direction = "SHORT"
    /\ h_call.signal.entry_level < SigClose

\* distance = proximity exactly: no signal
C19_AtProximityReached ==
    /\ h_call.op = "generate_signal"
    /\ SigGates
    /\ h_call.row.Close > h_call.row.EMA
    /\ h_call.row.ATR = 10
    /\ MulDen * (h_call.row.D_high - h_call.row.Close) + cfg.buffer_atr * h_call.row.ATR
           = cfg.proximity_atr * h_call.row.ATR
    /\ h_call.signal = NoSignal

\* every other test passes but one indicator is NaN: no signal
C19_WarmupReached ==
    /\ h_call.op = "generate_signal"
    /\ h_call.nan = {"ATR_rel_q"}
    /\ ~h_call.row.no_trade
    /\ h_call.row.VOL_ok
    /\ h_call.row.Close > h_call.row.EMA
    /\ h_call.row.ATR = 10
    /\ h_call.row.D_high = SigClose + 1
    /\ h_call.signal = NoSignal

\* the ledger is ordered by exit time
LedgerChronological(ledger) ==
    \A i \in 1 .. Len(ledger) - 1 : ledger[i].ts_exit <= ledger[i + 1].ts_exit

C20_SameTimeReached ==
    /\ Len(trades) >= 2
    /\ \E i \in 1 .. Len(trades) - 1 : trades[i].ts_exit = trades[i + 1].ts_exit

\* C21 (engine.py 422-442, position.py 17): the end of run() closes nothing.
\* Every ledger row has exit_reason in {SL, TP, TRAIL}; the ledger rows plus
\* the positions still open are the positions opened; the step that ends the
\* run leaves ledger, open positions and balance alone; and the final
\* balance is the start balance plus the realized results only.
C21_NoForceClose ==
    /\ [](/\ \A i \in 1 .. Len(trades) :
                trades[i].exit_reason \in {"SL", "TP", "TRAIL"}
          /\ Len(trades) + Len(open_positions) = Len(opens)
          /\ pc = "done" =>
                balance = cfg.start_balance + SumResultCash(trades, Len(trades)))
    /\ [][pc' = "done" =>
            /\ trades' = trades
            /\ open_positions' = open_positions
            /\ balance' = balance]_vars

\* a finished run with a closed trade behind it and a position still open
C21_Witness ==
    /\ pc = "done"
    /\ Len(trades) >= 1
    /\ Len(open_positions) >= 1
    /\ Len(opens) = Len(trades) + Len(open_positions)
    /\ balance # cfg.start_balance

\* the rows of a frame, and the frame in index order as the claims see it:
\* the k-th smallest timestamp at position k
Rows(df) == {df[i] : i \in 1 .. Len(df)}
IsIndexSorted(df) == \A i \in 1 .. Len(df) - 1 : df[i] < df[i + 1]
SplitCut == (Len(h_call.df) * h_call.ratio) \div RatioDen

\* the rows of the history with fewer than k / at least k smaller rows
RowsBelowRank(k) ==
    {x \in Rows(h_call.df) : Cardinality({y \in Rows(h_call.df) : y < x}) < k}
RowsFromRank(k) ==
    {x \in Rows(h_call.df) : Cardinality({y \in Rows(h_call.df) : y < x}) >= k}

\* C22 (split.py 69-102): with cut = floor(len * ratio) and 0 < cut < len,
\* target IS returns exactly rows [0, cut) and target OOS rows [cut, len) of
\* the index-sorted series: IS and OOS are disjoint, every IS timestamp
\* precedes every OOS timestamp, |IS| + |OOS| = |history|, and
\* SplitInfo.split_bars is the returned length.
C22_SplitPartition ==
    (h_call.op = "split_df_time" /\ 0 < SplitCut /\ SplitCut < Len(h_call.df)) =>
        /\ IsIndexSorted(h_call.is.df)
        /\ IsIndexSorted(h_call.oos.df)
        /\ Len(h_call.is.df) = SplitCut
        /\ Len(h_call.oos.df) = Len(h_call.df) - SplitCut
        /\ Rows(h_call.is.df) = RowsBelowRank(SplitCut)
        /\ Rows(h_call.oos.df) = RowsFromRank(SplitCut)
        /\ Rows(h_call.is.df) \cap Rows(h_call.oos.df) = {}
        /\ Rows(h_call.is.df) \cup Rows(h_call.oos.df) = Rows(h_call.df)
        /\ \A x \in Rows(h_call.is.df), y \in Rows(h_call.oos.df) : x < y
        /\ Len(h_call.is.df) + Len(h_call.oos.df) = Len(h_call.df)
        /\ h_call.is.info.split_bars = Len(h_call.is.df)
        /\ h_call.oos.info.split_bars = Len(h_call.oos.df)
        /\ h_call.is.info.original_bars = Len(h_call.df)
        /\ h_call.oos.info.original_bars = Len(h_call.df)
        /\ h_call.default = [h_call.is EXCEPT !.info.target = "is"]

\* an unsorted history of four bars split 3 / 1
C22_Witness ==
    /\ h_call.op = "split_df_time"
    /\ Len(h_call.df) = 4
    /\ ~IsIndexSorted(h_call.df)
    /\ h_call.ratio = 7
    /\ SplitCut = 2
    /\ h_call.is.df = <<1, 2>>
    /\ h_call.oos.df = <<3, 4>>
    /\ h_call.oos.info.split_bars = 2

\* the whole history in index order, returned with bars = original_bars
WholeSeries(r) ==
    /\ IsIndexSorted(r.df)
    /\ Len(r.df) = Len(h_call.df)
    /\ Rows(r.df) = Rows(h_call.df)
    /\ r.info.original_bars = Len(h_call.df)
    /\ r.info.split_bars = r.info.original_bars

\* C23 (split.py 58-86): when cut = 0 or cut = len (ratio at the extremes,
\* or series too short), split_df_time returns the entire series for either
\* target with split_bars = original_bars; an empty input returns an empty
\* result with original_bars = split_bars = 0.
C23_DegenerateSplit ==
    h_call.op = "split_df_time" =>
        /\ (Len(h_call.df) > 0
              /\ (IntTrunc(Len(h_call.df) * h_call.ratio, RatioDen) <= 0
                  \/ IntTrunc(Len(h_call.df) * h_call.ratio, RatioDen) >= Len(h_call.df))) =>
                /\ WholeSeries(h_call.is)
                /\ WholeSeries(h_call.oos)
                /\ WholeSeries(h_call.default)
                /\ h_call.is.df = h_call.oos.df
        /\ Len(h_call.df) = 0 =>
                \A r \in {h_call.is, h_call.oos, h_call.default} :
                    /\ r.df = <<>>
                    /\ r.info.original_bars = 0
                    /\ r.info.split_bars = 0

\* a series too short for its ratio (2 bars at 0.3: cut = 0), returned whole
\* and sorted for the OOS target
C23_Witness ==
    /\ h_call.op = "split_df_time"
    /\ h_call.df = <<3, 1>>
    /\ h_call.ratio = 3
    /\ h_call.oos.df = <<1, 3>>
    /\ h_call.is.df = <<1, 3>>
    /\ h_call.oos.info.split_bars = 2

\* ratio 1.0: cut = len
C23_CutAtLenReached ==
    /\ h_call.op = "split_df_time"
    /\ Len(h_call.df) = 3
    /\ h_call.ratio = RatioDen
    /\ Len(h_call.is.df) = 3
    /\ Len(h_call.oos.df) = 3

\* the empty history
C23_EmptyReached ==
    /\ h_call.op = "split_df_time"
    /\ h_call.df = <<>>
    /\ h_call.is.df = <<>>
    /\ h_call.is.info.mode = "none"

\* the notes of the logged call that name a metric
HasNote(kind) ==
    \E i \in 1 .. Len(h_call.result.notes) : h_call.result.notes[i].kind = kind
NoteCount == Len(h_call.result.notes)

\* the critical condition as C24 states it: OOS expectancy negative, or OOS
\* profit factor below 1
CriticalAsStated ==
    \/ h_call.oos_row.expectancy_r < 0
    \/ h_call.oos_row.profit_factor < PfDen

\* C24 (compare.py 78-140): the status is insufficient_trades iff
\* oos.n_trades < min_trades, before any other check; otherwise valid iff no
\* note was collected; otherwise failed iff a critical note exists (OOS
\* expectancy negative, or OOS profit factor below 1) or at least 3 notes
\* were collected; otherwise degraded.  A pair whose only failure is an OOS
\* profit factor in [1, min_pf) is degraded.
C24_FourStatuses ==
    h_call.op = "evaluate_oos_eligibility" =>
        LET st == h_call.result.status
            enough == h_call.oos_row.n_trades >= h_call.criteria.min_trades
        IN  /\ st \in {"insufficient_trades", "valid", "failed", "degraded"}
            /\ st = "insufficient_trades" <=> ~enough
            /\ enough =>
                /\ st = "valid" <=> NoteCount = 0
                /\ st = "failed" <=>
                       (NoteCount > 0 /\ (CriticalAsStated \/ NoteCount >= 3))
                /\ st = "degraded" <=>
                       (NoteCount > 0 /\ ~CriticalAsStated /\ NoteCount < 3)
                /\ ( /\ NoteCount = 1
                     /\ HasNote("PF")
                     /\ h_call.oos_row.profit_factor >= PfDen ) => st = "degraded"

\* what the code computes: a note is critical when its text names ExpR and
\* holds "< 0", or names PF and holds "< 1"; the text after "< " is the
\* threshold of the criteria, so under the default criteria (0.0 and 1.2)
\* every ExpR note and every PF note is critical
C24_StatusAsCoded ==
    (h_call.op = "evaluate_oos_eligibility" /\ h_call.criteria = DefaultCriteria
        /\ h_call.oos_row.n_trades >= h_call.criteria.min_trades) =>
        LET st == h_call.result.status
        IN  /\ st = "valid" <=> NoteCount = 0
            /\ st = "failed" <=>
                   (HasNote("ExpR") \/ HasNote("PF") \/ NoteCount >= 3)
            /\ st = "degraded" <=>
                   (NoteCount \in {1, 2} /\ ~HasNote("ExpR") /\ ~HasNote("PF"))

\* default criteria, the only note is an OOS profit factor of 1.10: failed
C24_PfNoteAloneFails ==
    /\ h_call.op = "evaluate_oos_eligibility"
    /\ h_call.criteria = DefaultCriteria
    /\ h_call.oos_row.n_trades = 15
    /\ h_call.oos_row.profit_factor = 110
    /\ h_call.oos_row.expectancy_r = 30
    /\ NoteCount = 1
    /\ HasNote("PF")
    /\ h_call.result.status = "failed"

\* C25 (compare.py 99-113): once the trade count suffices, a note is
\* recorded for the OOS expectancy iff expectancy <= min_expectancy (an
\* expectancy equal to min_expectancy, 0 by default, is not valid), for the
\* profit factor iff pf < min_pf, and for the drawdown iff max_dd is
\* exceeded (a drawdown equal to the cap passes).
C25_NoteBounds ==
    (h_call.op = "evaluate_oos_eligibility"
        /\ h_call.oos_row.n_trades >= h_call.criteria.min_trades) =>
        /\ HasNote("ExpR") <=>
               h_call.oos_row.expectancy_r <= h_call.criteria.min_expectancy
        /\ HasNote("PF") <=>
               h_call.oos_row.profit_factor < h_call.criteria.min_pf
        /\ HasNote("DD") <=>
               h_call.oos_row.max_daily_dd_pct > h_call.criteria.max_dd
        /\ h_call.oos_row.expectancy_r = h_call.criteria.min_expectancy =>
               h_call.result.status # "valid"

\* the bounds the code applies: expectancy < min_expectancy (strict),
\* pf < min_pf, max_daily_dd_pct > max_dd
C25_NoteBoundsAsCoded ==
    (h_call.op = "evaluate_oos_eligibility"
        /\ h_call.oos_row.n_trades >= h_call.criteria.min_trades) =>
        /\ HasNote("ExpR") <=>
               h_call.oos_row.expectancy_r < h_call.criteria.min_expectancy
        /\ HasNote("PF") <=>
               h_call.oos_row.profit_factor < h_call.criteria.min_pf
        /\ HasNote("DD") <=>
               h_call.oos_row.max_daily_dd_pct > h_call.criteria.max_dd

\* default criteria, OOS expectancy exactly 0, everything else in order: valid
C25_ZeroExpectancyValid ==
    /\ h_call.op = "evaluate_oos_eligibility"
    /\ h_call.criteria = DefaultCriteria
    /\ h_call.oos_row.n_trades = 15
    /\ h_call.oos_row.expectancy_r = 0
    /\ h_call.oos_row.profit_factor = 120
    /\ h_call.oos_row.max_daily_dd_pct = 500
    /\ NoteCount = 0
    /\ h_call.result.status = "valid"

\* C26 (compare.py 456-503, 540-555): the Tier 1 and Tier 2 shortlists of
\* export_tiered_shortlists are disjoint by ticker.
C26_TiersDisjoint ==
    h_call.op = "export_tiered_shortlists" =>
        tickers_of(h_call.tier1) \cap tickers_of(h_call.tier2) = {}

\* both tiers are populated, and a ticker of Tier 1 has a second row that
\* would qualify for Tier 2
C26_Witness ==
    /\ h_call.op = "export_tiered_shortlists"
    /\ Len(h_call.tier1) = 1
    /\ Len(h_call.tier2) = 1
    /\ h_call.cfg.max_tickers = 20
    /\ \E i \in 1 .. Len(h_call.df) :
        /\ h_call.df[i].ticker = h_call.tier1[1].ticker
        /\ h_call.df[i].oos_trades = 12
        /\ passes_filters(h_call.df[i], h_call.cfg.tier2_min_trades, h_call.cfg)

IsScoreSorted(df) ==
    \A i \in 1 .. Len(df) - 1 : df[i].oos_score >= df[i + 1].oos_score

tier_rows(df) == {df[i] : i \in 1 .. Len(df)}

\* t holds exactly the rows of a and of b, each as many times
SameRows(t, a, b) ==
    /\ Len(t) = Len(a) + Len(b)
    /\ \A r \in tier_rows(t) \cup tier_rows(a) \cup tier_rows(b) :
        Cardinality({i \in 1 .. Len(t) : t[i] = r})
            = Cardinality({i \in 1 .. Len(a) : a[i] = r})
              + Cardinality({i \in 1 .. Len(b) : b[i] = r})

\* C27 as stated (compare.py 566-577): shortlist_tradable holds exactly the
\* rows of both tiers, in non-increasing oos_score order across the whole
\* table.
C27_TradableSorted ==
    h_call.op = "export_tiered_shortlists" =>
        /\ SameRows(h_call.tradable, h_call.tier1, h_call.tier2)
        /\ IsScoreSorted(h_call.tradable)

\* C27 as the code has it: shortlist_tradable holds exactly the rows of both
\* tiers, the Tier 1 rows first in Tier 1's order and then the Tier 2 rows in
\* Tier 2's order, each block in non-increasing oos_score order.
C27_TradableIsTier1ThenTier2 ==
    h_call.op = "export_tiered_shortlists" =>
        /\ SameRows(h_call.tradable, h_call.tier1, h_call.tier2)
        /\ SubSeq(h_call.tradable, 1, Len(h_call.tier1)) = h_call.tier1
        /\ SubSeq(h_call.tradable, Len(h_call.tier1) + 1, Len(h_call.tradable))
               = h_call.tier2
        /\ IsScoreSorted(h_call.tier1)
        /\ IsScoreSorted(h_call.tier2)

\* a Tier 2 row scores higher than a Tier 1 row
C27_Witness ==
    /\ h_call.op = "export_tiered_shortlists"
    /\ \E i \in 1 .. Len(h_call.tier1), j \in 1 .. Len(h_call.tier2) :
        h_call.tier2[j].oos_score > h_call.tier1[i].oos_score

\* the filters of a tier, as the claim lists them
MeetsTierFilters(r, tier_min, c) ==
    /\ r.oos_trades >= tier_min
    /\ r.oos_pf >= 120
    /\ r.oos_expectancy > 0
    /\ r.oos_dd <= c.dd_cap
    /\ r.is_dd <= c.dd_cap

\* the score the code gives to row r of the comparison table
ScoreOf(r, c) ==
    100 * c.weight_expectancy * r.oos_expectancy
        + 10 * c.weight_pf * log_milli(r.oos_pf) - c.weight_dd * r.oos_dd

\* row r of the comparison table is absent from the shortlist
LeftOut(r, tier) ==
    \A i \in 1 .. Len(tier) :
        \/ tier[i].ticker # r.ticker
        \/ tier[i].oos_trades # r.oos_trades
        \/ tier[i].oos_pf # r.oos_pf
        \/ tier[i].oos_expectancy # r.oos_expectancy
        \/ tier[i].oos_dd # r.oos_dd
        \/ tier[i].is_dd # r.is_dd

\* what the claim says of one tier shortlist, the candidates of the tier being
\* the rows whose ticker is not excluded (for Tier 2: not in Tier 1)
TierShortlistOk(df, tier, tier_min, c, excluded) ==
    /\ \A i \in 1 .. Len(tier) : MeetsTierFilters(tier[i], tier_min, c)
    /\ IsScoreSorted(tier)
    /\ Len(tier) <= c.max_tickers
    /\ \A i \in 1 .. Len(df) :
        ( /\ df[i].ticker \notin excluded
          /\ MeetsTierFilters(df[i], tier_min, c)
          /\ LeftOut(df[i], tier) )
        => \A j \in 1 .. Len(tier) : ScoreOf(df[i], c) <= tier[j].oos_score

\* C28 (compare.py 456-503): each tier shortlist holds only rows with
\* oos_trades >= tier_min, oos_pf >= 1.2, oos_expectancy > 0, oos_dd <= dd_cap
\* and is_dd <= dd_cap, in non-increasing oos_score order, at most max_tickers
\* of them, and no candidate row left out that passes the filters scores
\* strictly higher than a row of the shortlist.
C28_TierShortlist ==
    h_call.op = "export_tiered_shortlists" =>
        /\ TierShortlistOk(h_call.df, h_call.tier1, 15, h_call.cfg, {})
        /\ TierShortlistOk(h_call.df, h_call.tier2, 10, h_call.cfg,
                           tickers_of(h_call.tier1))

\* the cap cuts Tier 1: a row that passes the Tier 1 filters is left out of
\* it, while another row of the table fails a filter
C28_Witness ==
    /\ h_call.op = "export_tiered_shortlists"
    /\ Len(h_call.tier1) = h_call.cfg.max_tickers
    /\ Len(h_call.tier1) = 2
    /\ h_call.tier1[1].oos_score > h_call.tier1[2].oos_score
    /\ \E i \in 1 .. Len(h_call.df) :
        /\ MeetsTierFilters(h_call.df[i], 15, h_call.cfg)
        /\ LeftOut(h_call.df[i], h_call.tier1)
        /\ ScoreOf(h_call.df[i], h_call.cfg) < h_call.tier1[2].oos_score

\* a row is kept out of both tiers by one filter only
C28_FilteredOutReached ==
    /\ h_call.op = "export_tiered_shortlists"
    /\ Len(h_call.tier1) >= 1
    /\ Len(h_call.tier2) >= 1
    /\ \E i \in 1 .. Len(h_call.df) :
        /\ h_call.df[i].oos_expectancy = 0
        /\ h_call.df[i].oos_trades = 20
        /\ LeftOut(h_call.df[i], h_call.tier1)
        /\ LeftOut(h_call.df[i], h_call.tier2)

\* the step is the signal recompute that ends a coarse bar
IsRecompute == bar_idx' = bar_idx + 1

\* the precedence of the recompute, on the state it starts from
RecomputePrecedence ==
    IF prop_sim.daily.halted THEN pending_order' = NoOrder
    ELSE IF cfg.max_concurrent_trades > 0
            /\ Len(open_positions) >= cfg.max_concurrent_trades
    THEN pending_order' = NoOrder
    ELSE \E r \in SignalRows(row.Close) :
            pending_order' =
                IF generate_signal(cfg, r, row.ts) # NoSignal
                THEN from_signal(generate_signal(cfg, r, row.ts), bar_idx)
                ELSE NoOrder

\* a pending order is the one made by the recompute of the bar before
PendingIsFresh ==
    pending_order # NoOrder =>
        /\ bar_idx >= 1
        /\ pending_order.ts_signal = BarTs(bar_idx - 1)

\* C29 (engine.py 333-356): the recompute at the end of a coarse bar clears
\* the pending order if trading is halted, else clears it if the number of
\* open positions has reached the cap (cap > 0), else replaces it by the
\* order of the strategy's new signal or cancels it when there is none; so a
\* pending order present during bar t is the one made by the recompute of
\* bar t-1.
C29_RecomputeReplaces ==
    [][ /\ IsRecompute => RecomputePrecedence
        /\ PendingIsFresh' ]_vars

\* a pending order made at the end of bar t-2 opened a position during bar
\* t-1, and the recompute of bar t-1 has made the pending order of bar t
C29_Witness ==
    /\ pc = "loop"
    /\ bar_idx >= 2
    /\ pending_order # NoOrder
    /\ pending_order.ts_signal = BarTs(bar_idx - 1)
    /\ opens # <<>>
    /\ opens[Len(opens)].bar_idx = bar_idx - 1
    /\ opens[Len(opens)].order.ts_signal = BarTs(bar_idx - 2)

\* a recompute under halt, and one at the cap, have left no pending order
C29_HaltedRecomputeReached ==
    /\ pc = "loop"
    /\ bar_idx >= 1
    /\ prop_sim.daily.halted
    /\ pending_order = NoOrder

C29_CapRecomputeReached ==
    /\ pc = "loop"
    /\ bar_idx >= 1
    /\ ~prop_sim.daily.halted
    /\ cfg.max_concurrent_trades > 0
    /\ Len(open_positions) >= cfg.max_concurrent_trades
    /\ pending_order = NoOrder

\* the step is the coarse path of a bar
IsCoarseStep == pc = "exec" /\ sub_idx = 0 /\ pc' = "signal"

\* the trades the step has appended
NewTrades == SubSeq(trades', Len(trades) + 1, Len(trades'))

Exits(r) == r.reason # "NONE"
Stays(r) == r.reason = "NONE"

\* check_exit on every position open before the step, the bar opening at open
CoarseResults(open) ==
    [i \in 1 .. Len(open_positions) |->
        check_exit(open_positions[i], row.High, row.Low,
                   cfg.conservative_same_bar, TRUE, open)]

\* the trades of the step are the exits of the positions open before it, in
\* list order, and the positions that stay come first in the new list
ExitsComeFirst(out, stay) ==
    /\ Len(NewTrades) = Len(out)
    /\ \A k \in 1 .. Len(out) :
        /\ NewTrades[k].exit_reason = out[k].reason
        /\ NewTrades[k].exit_price = out[k].price
        /\ NewTrades[k].ts_entry = out[k].pos.ts_entry
        /\ NewTrades[k].ts_exit = row.ts
    /\ Len(open_positions') >= Len(stay)
    /\ \A k \in 1 .. Len(stay) : open_positions'[k] = stay[k].pos

\* the trigger is tested once, after the exits, and the position it opens is
\* left as opened
TriggerOnceAfter(stay) ==
    \/ /\ opens' = opens
       /\ Len(open_positions') = Len(stay)
       /\ pending_order' = pending_order
    \/ /\ Len(opens') = Len(opens) + 1
       /\ SubSeq(opens', 1, Len(opens)) = opens
       /\ opens'[Len(opens')].order = pending_order
       /\ opens'[Len(opens')].n_open = Len(stay)
       /\ opens'[Len(opens')].bar_idx = bar_idx
       /\ Len(open_positions') = Len(stay) + 1
       /\ open_positions'[Len(open_positions')] = opens'[Len(opens')].pos
       /\ pending_order' = NoOrder

\* C30 (engine.py 235-258, 412-420): on a coarse bar the exits of the
\* positions already open are evaluated first, with open_price = the bar's
\* open, then the pending trigger is tested once; the position opened on the
\* bar is not evaluated for exit on it, so every trade of the coarse path has
\* duration_bars >= 1.
C30_CoarseOrdering ==
    [][ IsCoarseStep =>
          /\ \E open \in row.Low .. row.High :
                /\ ExitsComeFirst(SelectSeq(CoarseResults(open), Exits),
                                  SelectSeq(CoarseResults(open), Stays))
                /\ TriggerOnceAfter(SelectSeq(CoarseResults(open), Stays))
          /\ \A k \in 1 .. Len(NewTrades) : NewTrades[k].duration_bars >= 1
      ]_vars

\* a coarse bar has closed a position and opened another, which is still open
\* although the range of the bar reaches its stop or its target
C30_Witness ==
    /\ pc = "signal"
    /\ trades # <<>>
    /\ trades[Len(trades)].ts_exit = row.ts
    /\ opens # <<>>
    /\ opens[Len(opens)].bar_idx = bar_idx
    /\ opens[Len(opens)].ts = row.ts
    /\ open_positions # <<>>
    /\ open_positions[Len(open_positions)] = opens[Len(opens)].pos
    /\ check_exit(opens[Len(opens)].pos, row.High, row.Low, TRUE, FALSE,
                  0).reason # "NONE"

\* the step is the head of a coarse bar, and the bar starts a day after
\* another
IsBarHead == pc = "loop" /\ pc' = "exec"
IsRollover ==
    /\ IsBarHead
    /\ daily_state.current_day # NoDay
    /\ row'.day # daily_state.current_day

\* the equity sample of the bar the step starts
EquitySample == equity_curve'[Len(equity_curve')].equity

\* what a rollover step does
RolloverStep ==
    /\ Len(daily_stats') = Len(daily_stats) + 1
    /\ SubSeq(daily_stats', 1, Len(daily_stats)) = daily_stats
    /\ daily_stats'[Len(daily_stats')].date = daily_state.current_day
    /\ daily_stats'[Len(daily_stats')].start_equity = daily_state.start_equity
    /\ daily_stats'[Len(daily_stats')].min_equity = daily_state.min_equity
    /\ daily_state'.current_day = row'.day
    /\ daily_state'.losses_closed = 0
    /\ daily_state'.halted = FALSE
    /\ daily_state'.start_equity = EquitySample
    /\ daily_state'.min_equity = EquitySample
    /\ prop_sim'.daily.current_day = row'.day
    /\ prop_sim'.daily.losses_closed = 0
    /\ prop_sim'.daily.halted = FALSE
    /\ prop_sim'.daily.start_equity = EquitySample
    /\ prop_sim'.daily.min_equity = EquitySample

\* a bar head inside a day flushes nothing
SameDayStep ==
    (daily_state.current_day # NoDay /\ row'.day = daily_state.current_day)
        => daily_stats' = daily_stats /\ daily_state'.current_day = row'.day

\* days are numbered 1, 2, ... in the order they start: one row per day that
\* has ended, in that order, and one more for the last day after the flush
OneRowPerDay ==
    /\ \A i \in 1 .. Len(daily_stats) : daily_stats[i].date = i
    /\ Len(daily_stats) = IF daily_state.current_day = NoDay THEN 0
                          ELSE IF pc = "done" THEN daily_state.current_day
                          ELSE daily_state.current_day - 1

DrawdownNeverNegative ==
    /\ daily_state.min_equity <= daily_state.start_equity
    /\ \A i \in 1 .. Len(daily_stats) :
        /\ daily_stats[i].min_equity <= daily_stats[i].start_equity
        /\ daily_stats[i].max_daily_dd_pct >= 0

\* C31 (engine.py 139-152, 386-431): at the first coarse bar of a new day one
\* daily-stats row for the finished day is appended, the loss counter and the
\* halt flag are reset and start_equity and min_equity are set to the bar's
\* equity sample; daily_stats holds one row per maximal run of same-day bars,
\* in chronological order, once the last day is flushed; within a day
\* min_equity <= start_equity, so the recorded daily drawdown is never
\* negative.
C31_DayRollover ==
    [][ /\ IsRollover => RolloverStep
        /\ IsBarHead => SameDayStep
        /\ OneRowPerDay'
        /\ DrawdownNeverNegative' ]_vars

\* the run has ended after two days, the first of which had a drawdown
C31_Witness ==
    /\ pc = "done"
    /\ Len(daily_stats) = 2
    /\ daily_stats[1].min_equity < daily_stats[1].start_equity
    /\ daily_stats[2].start_equity # daily_stats[1].start_equity
    /\ bar_idx = MaxBars

\* the activation gate of position p is closed
Gated(p) ==
    /\ p.trailing_atr_dist > 0
    /\ p.trailing_activation_price > 0
    /\ IF p.direction = "LONG" THEN p.best_price < p.trailing_activation_price
       ELSE p.best_price > p.trailing_activation_price

\* C32 (position.py 61-90, engine.py 216-228): with trailing enabled and an
\* activation price, as long as best_price has not reached the activation
\* price trailing_sl stays at the initial sl and a stop exit is SL at the
\* initial sl, while best_price follows the running extreme since entry; once
\* it is reached trailing_sl becomes max(trailing_sl, best_price - distance)
\* for a LONG (min, + for a SHORT); with trailing_distance <= 0 the position
\* is left unchanged.
C32_ActivationGate ==
    [][ (h_alive /\ h_n' = h_n + 1) =>
          /\ h_pos.trailing_atr_dist <= 0 => h_pos' = h_pos
          /\ h_pos.trailing_atr_dist > 0 =>
                h_pos'.best_price = h_call'.extreme
          /\ Gated(h_pos') =>
                /\ h_pos'.trailing_sl = h_pos.sl
                /\ h_call'.reason \in {"SL", "TRAIL"} =>
                      h_call'.reason = "SL" /\ h_call'.price = h_pos.sl
          /\ (h_pos.trailing_atr_dist > 0 /\ ~Gated(h_pos')) =>
                h_pos'.trailing_sl =
                    IF h_pos.direction = "LONG"
                    THEN Max(h_pos.trailing_sl,
                             h_pos'.best_price - h_pos.trailing_atr_dist)
                    ELSE Min(h_pos.trailing_sl,
                             h_pos'.best_price + h_pos.trailing_atr_dist)
      ]_vars

\* a LONG has moved in favour, far enough for best_price - distance to pass
\* the initial stop, but not up to the activation price: the stop has stayed
C32_Witness ==
    /\ h_call.op \in {"check_exit", "update_trailing"}
    /\ h_alive
    /\ h_pos.direction = "LONG"
    /\ Gated(h_pos)
    /\ h_pos.best_price > h_pos.entry
    /\ h_pos.best_price - h_pos.trailing_atr_dist > h_pos.sl
    /\ h_pos.trailing_sl = h_pos.sl

\* the gate has opened and the trailing stop has passed the initial stop
C32_ActivatedReached ==
    /\ h_call.op \in {"check_exit", "update_trailing"}
    /\ h_pos.trailing_activation_price > 0
    /\ h_pos.direction = "SHORT"
    /\ ~Gated(h_pos)
    /\ h_pos.trailing_sl < h_pos.sl

\* a stop exit under a closed gate, after a move in favour
C32_GatedStopReached ==
    /\ h_call.op = "check_exit"
    /\ h_call.reason = "SL"
    /\ Gated(h_pos)
    /\ h_pos.direction = "LONG"
    /\ h_pos.best_price > h_pos.entry

\* the reference price of the claim for position p on bar r
MarkPrice(p, r) ==
    IF cfg.daily_equity_mode = "close" THEN r.Close
    ELSE IF p.direction = "LONG" THEN r.Low
    ELSE r.High

\* the sum over positions i.. of unrealized_r(reference price) * risk_cash
RECURSIVE UnrealizedCash(_, _, _)
UnrealizedCash(positions, r, i) ==
    IF i > Len(positions) THEN 0
    ELSE (compute_unrealized_r(positions[i], MarkPrice(positions[i], r))
             * positions[i].risk_cash) \div RScale
         + UnrealizedCash(positions, r, i + 1)

\* C33 (engine.py 118-137, 391-417): the equity sample of a coarse bar is
\* taken before any fill or exit of the bar: it is the balance before the bar
\* plus the sum over the positions open at the start of the bar of
\* unrealized_r(ref_price) * risk_cash, with ref_price the bar's close in
\* mode close and its low (LONG) or high (SHORT) in mode worst; with no open
\* position it is the balance.
C33_EquitySample ==
    [][ /\ IsBarHead =>
            /\ Len(equity_curve') = Len(equity_curve) + 1
            /\ equity_curve'[Len(equity_curve')].balance = balance
            /\ equity_curve'[Len(equity_curve')].equity
                   = balance + UnrealizedCash(open_positions, row', 1)
            /\ open_positions = <<>> =>
                   equity_curve'[Len(equity_curve')].equity = balance
            /\ balance' = balance
            /\ open_positions' = open_positions
            /\ trades' = trades
            /\ pending_order' = pending_order
        /\ ~IsBarHead => equity_curve' = equity_curve
      ]_vars

\* worst-case mode: a SHORT is open at the start of a bar whose high is above
\* its close, and the sample is below the balance
C33_Witness ==
    /\ pc = "exec"
    /\ sub_idx = 0
    /\ cfg.daily_equity_mode = "worst"
    /\ open_positions # <<>>
    /\ open_positions[1].direction = "SHORT"
    /\ row.Close < row.High
    /\ equity_curve[Len(equity_curve)].equity < balance

\* close mode: a position is open and the sample is above the balance
C33_CloseModeReached ==
    /\ pc = "exec"
    /\ sub_idx = 0
    /\ cfg.daily_equity_mode = "close"
    /\ open_positions # <<>>
    /\ equity_curve[Len(equity_curve)].equity > balance

\* the step flushes the row of a finished day (at a rollover, or at the end
\* of the run); before the step the simulator's daily state is still the one
\* of that day: its halt flag is set iff the simulator was halted at some
\* point of the day, and its loss counter is the number of trades closed in
\* the day with result_r < 0
IsFlush == Len(daily_stats') = Len(daily_stats) + 1
FlushedRow == daily_stats'[Len(daily_stats')]

\* C34 as stated (engine.py 139-152, 182-183, 422-431; prop_sim.py 115-125):
\* every daily-stats row reports halted = true exactly when the simulator was
\* halted at some point of the day, and losses_closed = the number of trades
\* closed that day with result_r < 0.
C34_DailyRowReportsDay ==
    [][ IsFlush =>
          /\ FlushedRow.halted = prop_sim.daily.halted
          /\ FlushedRow.losses_closed = prop_sim.daily.losses_closed ]_vars

\* what the engine writes: its own DailyState is only ever reset, so every
\* row has halted = false and losses_closed = 0
C34_RowsAsCoded ==
    /\ daily_state.halted = FALSE
    /\ daily_state.losses_closed = 0
    /\ \A i \in 1 .. Len(daily_stats) :
        daily_stats[i].halted = FALSE /\ daily_stats[i].losses_closed = 0

\* the run has ended on a day with a losing trade and a halt, and the row of
\* that day reports neither
C34_HaltedDayUnreported ==
    /\ pc = "done"
    /\ prop_sim.daily.halted
    /\ prop_sim.daily.losses_closed >= 1
    /\ daily_stats # <<>>
    /\ daily_stats[Len(daily_stats)].date = prop_sim.daily.current_day
    /\ daily_stats[Len(daily_stats)].halted = FALSE
    /\ daily_stats[Len(daily_stats)].losses_closed = 0

\* the engine's daily state and the simulator's agree on the day, on its
\* start equity and on its lowest equity
DailyStatesAgree ==
    /\ daily_state.current_day = prop_sim.daily.current_day
    /\ daily_state.start_equity = prop_sim.daily.start_equity
    /\ daily_state.min_equity = prop_sim.daily.min_equity

EquityRowsSound ==
    \A i \in 1 .. Len(equity_curve) :
        /\ equity_curve[i].dd_daily >= cfg.daily_kill_switch
              => equity_curve[i].halt_today
        /\ equity_curve[i].dd_global >= 0

\* C35 (engine.py 394-410, prop_sim.py 33-43, 74-113): in every equity-curve
\* row dd_daily >= daily_kill_switch implies halt_today and dd_global >= 0;
\* from one row to the next of the same calendar day dd_daily does not
\* decrease; the engine's daily state and the simulator's never disagree on
\* start_equity or min_equity.
C35_EquityRows ==
    [][ /\ EquityRowsSound'
        /\ DailyStatesAgree'
        /\ (IsBarHead /\ equity_curve # <<>>
               /\ row'.day = daily_state.current_day)
              => equity_curve'[Len(equity_curve')].dd_daily
                     >= equity_curve[Len(equity_curve)].dd_daily
      ]_vars

\* the third row is of the same day as the second (its drawdown is positive,
\* which it is not on the first bar of a day), with a larger drawdown, at or
\* beyond the kill-switch and flagged
C35_Witness ==
    /\ Len(equity_curve) = 3
    /\ equity_curve[3].dd_daily > equity_curve[2].dd_daily
    /\ equity_curve[3].dd_daily >= cfg.daily_kill_switch
    /\ equity_curve[3].halt_today
    /\ equity_curve[3].dd_global > 0

\* a row flagged as halted below the kill-switch (the halt came from losses)
C35_HaltBelowKillSwitchReached ==
    /\ Len(equity_curve) = 3
    /\ equity_curve[3].dd_daily > 0
    /\ equity_curve[3].dd_daily < cfg.daily_kill_switch
    /\ equity_curve[3].halt_today

\* the points gained by trade t (negative for a loss), and its initial risk
PnlPoints(t) ==
    IF t.direction = "LONG" THEN t.exit_price - t.entry
    ELSE t.entry - t.exit_price
RiskPoints(t) == IF t.entry >= t.sl THEN t.entry - t.sl ELSE t.sl - t.entry

TradeBounded(t) ==
    /\ t.exit_reason \in {"SL", "TP", "TRAIL"}
    /\ t.exit_reason = "SL" =>
          /\ t.exit_price = t.sl
          /\ PnlPoints(t) = -RiskPoints(t)
          /\ t.result_r = -RScale
    /\ t.exit_reason = "TP" =>
          /\ t.exit_price = t.tp
          /\ PnlPoints(t) * MulDen = cfg.tp_r * RiskPoints(t)
          /\ t.result_r * MulDen = cfg.tp_r * RScale
    /\ t.exit_reason = "TRAIL" =>
          /\ PnlPoints(t) > -RiskPoints(t)
          /\ t.result_r >= -RScale
          /\ cfg.exit_mode = "trailing_atr"
          /\ cfg.trailing_atr * t.atr_signal > 0

\* C36 (position.py 92-102, 136-178; donchian_breakout.py 148-167): for every
\* logged trade of a position with risk_points > 0, SL means exit at the
\* initial sl with result_r = -1, TP means exit at tp with result_r = tp_r,
\* and TRAIL means result_r > -1 and a position with trailing_distance > 0,
\* never one of exit_mode fixed.
C36_LossBounded ==
    \A i \in 1 .. Len(trades) :
        RiskPoints(trades[i]) > 0 => TradeBounded(trades[i])

\* a SHORT stopped at its initial stop; a trade closed by the trailing stop;
\* a trade closed at its target
C36_Witness ==
    /\ \E i \in 1 .. Len(trades) :
        /\ trades[i].exit_reason = "SL"
        /\ trades[i].direction = "SHORT"
        /\ RiskPoints(trades[i]) > 0

C36_TrailReached ==
    \E i \in 1 .. Len(trades) :
        /\ trades[i].exit_reason = "TRAIL"
        /\ RiskPoints(trades[i]) > 0

C36_TpReached ==
    \E i \in 1 .. Len(trades) :
        /\ trades[i].exit_reason = "TP"
        /\ RiskPoints(trades[i]) > 0

\* the logged call, made again with conservative_same_bar the other way
CallWithOtherFlag ==
    check_exit(h_call.before, h_call.high, h_call.low, ~h_call.conservative,
               h_call.has_open, h_call.open_price)

\* C37 (position.py 154-178, engine.py 239-245): the result of check_exit,
\* that is exit reason, exit price and the state the position is left in,
\* does not depend on conservative_same_bar: for every position and every
\* (high, low, open_price), open_price absent included, both values of the
\* argument give the same outcome.
C37_ConservativeFlagIgnored ==
    h_call.op = "check_exit" =>
        /\ CallWithOtherFlag.reason = h_call.reason
        /\ CallWithOtherFlag.price = h_call.price
        /\ CallWithOtherFlag.pos = h_pos

\* the only case in which the code reads the argument: both levels hit, no
\* open price; the call was made with the argument off and exits at the stop
C37_Witness ==
    /\ h_call.op = "check_exit"
    /\ ~h_call.has_open
    /\ ~h_call.conservative
    /\ h_call.before.tp # 0
    /\ IF h_call.before.direction = "LONG"
       THEN h_call.low <= h_call.before.sl /\ h_call.high >= h_call.before.tp
       ELSE h_call.high >= h_call.before.sl /\ h_call.low <= h_call.before.tp
    /\ h_call.reason \in {"SL", "TRAIL"}

\* every position logged was entered on the bar after the one whose recompute
\* emitted its signal, and no two on the same coarse bar
EnteredOnNextBar ==
    /\ \A i \in 1 .. Len(opens) :
        /\ opens[i].bar_idx >= 1
        /\ opens[i].order.ts_signal = BarTs(opens[i].bar_idx - 1)
        /\ opens[i].order.expiry_bar_idx
               = opens[i].bar_idx - 1 + cfg.order_valid_bars
        /\ opens[i].pos.entry_bar_idx = opens[i].bar_idx
    /\ \A i, j \in 1 .. Len(opens) :
        i < j => opens[i].bar_idx < opens[j].bar_idx

\* on a coarse-path bar with nothing open, the order is filled iff the bar
\* reaches its level and trading is not halted, whatever its expiry
FilledWhateverExpiry ==
    (IsCoarseStep /\ open_positions = <<>>) =>
        ( Len(opens') = Len(opens) + 1
          <=> /\ pending_order # NoOrder
              /\ is_triggered(pending_order, row.High, row.Low)
              /\ ~prop_sim.daily.halted )

C38_ValidOrderReplacedReached ==
    /\ cfg.order_valid_bars = 2
    /\ Len(opens) = 1
    /\ opens[1].bar_idx = 2
    /\ pc = "signal"

\* two positions opened on consecutive coarse bars
C38_ConsecutiveFillsReached ==
    /\ Len(opens) = 2
    /\ opens[2].bar_idx = opens[1].bar_idx + 1

\* what the claim says of one replay
ReplayPartitions(r, tf) ==
    /\ \A i, j \in 1 .. Len(r) : (i # j /\ r[i].ts = r[j].ts) => FALSE
    /\ \A i \in 1 .. Len(r) : r[i].bar <= r[i].ts /\ r[i].ts < r[i].bar + tf
    /\ \A i \in 1 .. Len(r) - 1 : r[i].ts < r[i + 1].ts

\* C39 as stated (engine.py 262-278, 412-417; config.py 35): for both
\* supported coarse timeframes, 1h and 4h, each finer sub-bar is replayed
\* under at most one coarse bar, the one whose interval contains its
\* timestamp, and the sub-bars are processed in strictly increasing timestamp
\* order over the run.
C39_ReplayPartitions ==
    h_call.op = "replay" => ReplayPartitions(h_call.replayed, h_call.timeframe)

\* the same for the 4h timeframe alone, which is the width the code uses
C39_ReplayPartitionsAt4h ==
    (h_call.op = "replay" /\ h_call.timeframe = 4)
        => ReplayPartitions(h_call.replayed, 4)

\* timeframe 1h, hourly bars at 00:00 and 01:00 in both frames: the bar of
\* 01:00 is replayed under the coarse bar of 00:00 and again under its own
C39_SubBarReplayedTwice ==
    /\ h_call.op = "replay"
    /\ h_call.timeframe = 1
    /\ h_call.coarse = {0, 1}
    /\ h_call.fine = {0, 1}
    /\ h_call.replayed = << [bar |-> 0, ts |-> 0], [bar |-> 0, ts |-> 1],
                            [bar |-> 1, ts |-> 1] >>

\* timeframe 4h, every hour present: eight sub-bars, four under each bar
C39_FullReplayAt4hReached ==
    /\ h_call.op = "replay"
    /\ h_call.timeframe = 4
    /\ h_call.coarse = {0, 4}
    /\ h_call.fine = Hours
    /\ Len(h_call.replayed) = 8

\* a row of the comparison table satisfies every Tier 1 criterion
MeetsTier1(r) == MeetsTierFilters(r, 15, h_call.cfg)

====
